---- MODULE Spec2Model ----
(***************************************************************************)
(* Mythic Mixology Lab (Google Apps Script backend, src/unnamed/part_000). *)
(*                                                                         *)
(* JavaScript values are modelled as tagged records (field k is the tag),  *)
(* JavaScript strings as TLA+ strings over the alphabet of the section     *)
(* Strings, and numbers in tenths (with their own tags for the numbers     *)
(* that tenths cannot hold), so that the coercions the code relies on      *)
(* (String, Number, truthiness, trim) are computed rather than assumed.    *)
(***************************************************************************)
EXTENDS Integers, Sequences, FiniteSets, TLC

VARIABLES
    primarySheet,   \* the GeneratedDrinks sheet: [exists, header, rows]
    votesSheet,     \* the VoteAudit sheet: [exists, header, rows]
    uuids,          \* identifiers Utilities.getUuid() has handed out so far
    today,          \* the wall clock as new Date() reads it: see Clock
    last,           \* what the last handler run did and returned
    procs,          \* the requests and handlers in flight (SpecVotes, SpecWorker)
    caches,         \* the CacheStorage of the page's origin (service worker)
    arg,            \* the input of the pure function under study
    out             \* its result

vars == <<primarySheet, votesSheet, uuids, today, last, procs, caches, arg, out>>

-----------------------------------------------------------------------------
(* JavaScript values *)

Undefined == [k |-> "undefined"]
Null == [k |-> "null"]
NaN == [k |-> "NaN"]
Bool(b) == [k |-> "boolean", v |-> b]
Tenths(n) == [k |-> "number", v |-> n]
Num(n) == Tenths(10 * n)
\* a finite number that is not a whole number of tenths below 10^8: the
\* digits, without zeros at either end, times 10^exp
Decimal(neg, digits, exp) == [k |-> "decimal", neg |-> neg, digits |-> digits, exp |-> exp]
\* Infinity and -Infinity
Infinite(neg) == [k |-> "Infinity", neg |-> neg]
Str(s) == [k |-> "string", v |-> s]
Arr(seq) == [k |-> "array", v |-> seq]
Obj(fields) == [k |-> "object", v |-> fields]

\* an object literal with no own property
EmptyFields == [x \in {} |-> Undefined]

\* o[key]: a property read that finds no own property gives undefined
Get(o, key) ==
    IF o.k = "object" /\ key \in DOMAIN o.v THEN o.v[key] ELSE Undefined

\* ToBoolean
Truthy(x) ==
    CASE x.k = "undefined" -> FALSE
      [] x.k = "null" -> FALSE
      [] x.k = "NaN" -> FALSE
      [] x.k = "boolean" -> x.v
      [] x.k = "number" -> x.v # 0
      [] x.k = "string" -> x.v # ""
      [] OTHER -> TRUE

\* a && b
And(a, b) == IF Truthy(a) THEN b ELSE a

\* a || b
Or(a, b) == IF Truthy(a) THEN a ELSE b

isArray(x) == x.k = "array"

\* const name = value; the value is computed once and Use reads it
With(value, Use(_)) == CHOOSE result \in {Use(v) : v \in {value}} : TRUE

-----------------------------------------------------------------------------
(* Strings *)

(* The alphabet: tab, line feed, vertical tab, form feed, carriage return,
   the printable ASCII characters, and the characters named here. A string
   of the model holds each named character as one control character that the
   alphabet otherwise lacks, so that a string reads the same whatever the
   encoding of this file is taken to be; CodeOf gives the UTF-16 code unit of
   the character that is meant. *)
VT == ""              \* U+000B, the vertical tab itself
NBSP == ""            \* U+00A0 no-break space
BOM == ""             \* U+FEFF zero width no-break space
LineSeparator == ""   \* U+2028
Bullet == ""          \* U+2022
Grave == ""           \* U+0060 grave accent
UpperEAcute == ""     \* U+00C9
LowerEAcute == ""     \* U+00E9
UpperOAcute == ""     \* U+00D3
LowerOAcute == ""     \* U+00F3
UpperCCedilla == ""   \* U+00C7
LowerCCedilla == ""   \* U+00E7
SharpS == ""          \* U+00DF
LowerYDiaeresis == "" \* U+00FF
UpperYDiaeresis == "" \* U+0178
DotlessI == ""        \* U+0131
LongS == ""           \* U+017F
MicroSign == ""       \* U+00B5
UpperMu == ""         \* U+039C
LowerMu == ""         \* U+03BC
KelvinSign == ""      \* U+212A

Digits == "0123456789"

\* the 1-based place of character c in alphabet, 0 when it is not in it
Place(alphabet, c) ==
    IF \E n \in 1..Len(alphabet) : SubSeq(alphabet, n, n) = c
    THEN CHOOSE n \in 1..Len(alphabet) : SubSeq(alphabet, n, n) = c
    ELSE 0

\* WhiteSpace and LineTerminator of ECMAScript, as far as the alphabet goes
IsSpace(c) == c \in {" ", "\t", "\n", VT, "\f", "\r", NBSP, BOM, LineSeparator}

RECURSIVE trimStart(_)
trimStart(s) ==
    IF s = "" THEN ""
    ELSE IF IsSpace(Head(s)) THEN trimStart(Tail(s)) ELSE s

RECURSIVE trimEnd(_)
trimEnd(s) ==
    IF s = "" THEN ""
    ELSE IF IsSpace(SubSeq(s, Len(s), Len(s)))
         THEN trimEnd(SubSeq(s, 1, Len(s) - 1))
         ELSE s

\* String.prototype.trim
trim(s) == trimEnd(trimStart(s))

RECURSIVE NatStr(_)
NatStr(n) ==
    IF n < 10 THEN SubSeq(Digits, n + 1, n + 1)
    ELSE NatStr(n \div 10) \o SubSeq(Digits, (n % 10) + 1, (n % 10) + 1)

\* Number.prototype.toString of a number held in tenths
NumStr(t) ==
    LET a == IF t < 0 THEN 0 - t ELSE t
        body == IF a % 10 = 0 THEN NatStr(a \div 10)
                ELSE NatStr(a \div 10) \o "." \o NatStr(a % 10)
    IN IF t < 0 THEN "-" \o body ELSE body

RECURSIVE Zeros(_)
Zeros(n) == IF n <= 0 THEN "" ELSE "0" \o Zeros(n - 1)

\* Number.prototype.toString of a Decimal: with k digits and the decimal
\* point after the n-th, plain notation for -6 < n <= 21 and exponent
\* notation beyond
DecimalStr(x) ==
    LET k == Len(x.digits)
        n == k + x.exp
        e == n - 1
        body ==
            IF k <= n /\ n <= 21 THEN x.digits \o Zeros(n - k)
            ELSE IF 0 < n /\ n <= 21
                 THEN SubSeq(x.digits, 1, n) \o "." \o SubSeq(x.digits, n + 1, k)
            ELSE IF -6 < n /\ n <= 0 THEN "0." \o Zeros(0 - n) \o x.digits
            ELSE (IF k = 1 THEN x.digits
                  ELSE SubSeq(x.digits, 1, 1) \o "." \o SubSeq(x.digits, 2, k))
                 \o (IF e < 0 THEN "e-" \o NatStr(0 - e) ELSE "e+" \o NatStr(e))
    IN IF x.neg THEN "-" \o body ELSE body

RECURSIVE String(_)
RECURSIVE JoinFrom(_, _, _)

\* Array.prototype.join from element i on: null and undefined join as ''
JoinFrom(seq, i, sep) ==
    IF i > Len(seq) THEN ""
    ELSE LET e == seq[i]
             s == IF e.k \in {"undefined", "null"} THEN "" ELSE String(e)
         IN IF i = Len(seq) THEN s ELSE s \o sep \o JoinFrom(seq, i + 1, sep)

\* String(x)
String(x) ==
    CASE x.k = "undefined" -> "undefined"
      [] x.k = "null" -> "null"
      [] x.k = "NaN" -> "NaN"
      [] x.k = "boolean" -> IF x.v THEN "true" ELSE "false"
      [] x.k = "number" -> NumStr(x.v)
      [] x.k = "decimal" -> DecimalStr(x)
      [] x.k = "Infinity" -> IF x.neg THEN "-Infinity" ELSE "Infinity"
      [] x.k = "string" -> x.v
      [] x.k = "array" -> JoinFrom(x.v, 1, ",")
      [] OTHER -> "[object Object]"

-----------------------------------------------------------------------------
(* Remote override normalization *)

DefaultReason == "A bespoke creation blending celestial and personal motifs."
DefaultCompatibility == "Tailored compatibility insight unavailable."

\* blueprint.ingredients.map(function (entry) { return String(entry).trim(); })
TrimmedStrings(seq) == [i \in 1..Len(seq) |-> trim(String(seq[i]))]

\* normalizeOpenAiBlueprint_ with a typeof test in place of the truthiness test
normalizeStringsOnly_(blueprint, context) ==
    LET text(f, default) ==
            IF Get(blueprint, f).k = "string" THEN trim(Get(blueprint, f).v) ELSE default
        list(f) ==
            IF isArray(Get(blueprint, f)) THEN TrimmedStrings(Get(blueprint, f).v) ELSE <<>>
    IN [drinkName |-> text("drinkName", context.firstName \o " Signature Sip"),
        reason |-> text("reason", DefaultReason),
        ingredients |-> list("ingredients"),
        instructions |-> list("instructions"),
        compatibility |-> text("compatibility", DefaultCompatibility)]

\* normalizeOpenAiBlueprint_ with the trim of the list entries forgotten
normalizeUntrimmedLists_(blueprint, context) ==
    LET text(f, default) ==
            IF Truthy(Get(blueprint, f)) THEN trim(String(Get(blueprint, f))) ELSE default
        list(f) ==
            IF isArray(Get(blueprint, f))
            THEN [i \in 1..Len(Get(blueprint, f).v) |-> String(Get(blueprint, f).v[i])]
            ELSE <<>>
    IN [drinkName |-> text("drinkName", context.firstName \o " Signature Sip"),
        reason |-> text("reason", DefaultReason),
        ingredients |-> list("ingredients"),
        instructions |-> list("instructions"),
        compatibility |-> text("compatibility", DefaultCompatibility)]

normalizeOpenAiBlueprint_(blueprint, context) ==
    LET rawName == And(blueprint, Get(blueprint, "drinkName"))
        rawReason == And(blueprint, Get(blueprint, "reason"))
        rawIngredients == And(blueprint, Get(blueprint, "ingredients"))
        rawInstructions == And(blueprint, Get(blueprint, "instructions"))
        rawCompatibility == And(blueprint, Get(blueprint, "compatibility"))
    IN [drinkName |-> IF Truthy(rawName) THEN trim(String(rawName))
                      ELSE context.firstName \o " Signature Sip",
        reason |-> IF Truthy(rawReason) THEN trim(String(rawReason))
                   ELSE DefaultReason,
        ingredients |-> IF isArray(rawIngredients)
                        THEN TrimmedStrings(rawIngredients.v) ELSE <<>>,
        instructions |-> IF isArray(rawInstructions)
                         THEN TrimmedStrings(rawInstructions.v) ELSE <<>>,
        compatibility |-> IF Truthy(rawCompatibility)
                          THEN trim(String(rawCompatibility))
                          ELSE DefaultCompatibility]

-----------------------------------------------------------------------------
(* Number coercion *)

IsDigit(c) == c \in {"0", "1", "2", "3", "4", "5", "6", "7", "8", "9"}

DigitVal(c) == CHOOSE d \in 0..9 : SubSeq(Digits, d + 1, d + 1) = c

RECURSIVE AllDigits(_)
AllDigits(s) == s = "" \/ (IsDigit(Head(s)) /\ AllDigits(Tail(s)))

RECURSIVE NatVal(_)
NatVal(s) ==
    IF s = "" THEN 0
    ELSE 10 * NatVal(SubSeq(s, 1, Len(s) - 1)) + DigitVal(SubSeq(s, Len(s), Len(s)))

RECURSIVE IndexOf(_, _, _)
\* the first position >= i of character c in s, 0 when there is none
IndexOf(s, c, i) ==
    IF i > Len(s) THEN 0
    ELSE IF SubSeq(s, i, i) = c THEN i ELSE IndexOf(s, c, i + 1)

RECURSIVE StripZeros(_)
StripZeros(s) ==
    IF s # "" /\ SubSeq(s, Len(s), Len(s)) = "0"
    THEN StripZeros(SubSeq(s, 1, Len(s) - 1)) ELSE s

RECURSIVE StripLeadingZeros(_)
StripLeadingZeros(s) ==
    IF s # "" /\ Head(s) = "0" THEN StripLeadingZeros(Tail(s)) ELSE s

RECURSIVE Power10(_)
Power10(n) == IF n <= 0 THEN 1 ELSE 10 * Power10(n - 1)

-----------------------------------------------------------------------------
(* Whole numbers of any size, for the rounding of a literal to a double: the
   tuple of the decimal digits, most significant first, << >> for 0 *)

\* the sequence a function on 1..n is
Tuple(f) == f \o << >>

DigitsOf(s) == Tuple([i \in 1..Len(s) |-> DigitVal(SubSeq(s, i, i))])

RECURSIVE DigitString(_)
DigitString(x) ==
    IF x = << >> THEN ""
    ELSE DigitString(SubSeq(x, 1, Len(x) - 1)) \o NatStr(x[Len(x)])

\* the least i in lo..hi with x[i] # 0, hi + 1 when there is none
FirstNonZero(x, lo, hi) ==
    IF \A i \in lo..hi : x[i] = 0 THEN hi + 1
    ELSE CHOOSE i \in lo..hi : x[i] # 0 /\ \A j \in lo..(i - 1) : x[j] = 0

\* the greatest i in lo..hi with x[i] # 0, lo - 1 when there is none
LastNonZero(x, lo, hi) ==
    IF \A i \in lo..hi : x[i] = 0 THEN lo - 1
    ELSE CHOOSE i \in lo..hi : x[i] # 0 /\ \A j \in (i + 1)..hi : x[j] = 0

\* x without its leading zeros
Significant(x) == SubSeq(x, FirstNonZero(x, 1, Len(x)), Len(x))

\* x with zeros in front, n digits in all
Pad(x, n) == Tuple([i \in 1..n |-> IF i <= n - Len(x) THEN 0 ELSE x[i - (n - Len(x))]])

\* the least i in lo..hi with a[i] # b[i], hi + 1 when there is none
FirstDifference(a, b, lo, hi) ==
    IF \A i \in lo..hi : a[i] = b[i] THEN hi + 1
    ELSE CHOOSE i \in lo..hi : a[i] # b[i] /\ \A j \in lo..(i - 1) : a[j] = b[j]

\* the least i in lo..hi with a[i] + b[i] # 9, hi + 1 when there is none
FirstNotNine(a, b, lo, hi) ==
    IF \A i \in lo..hi : a[i] + b[i] = 9 THEN hi + 1
    ELSE CHOOSE i \in lo..hi : a[i] + b[i] # 9 /\ \A j \in lo..(i - 1) : a[j] + b[j] = 9

\* -1, 0 or 1 as a is less than, equal to or greater than b
Compare(a, b) ==
    IF Len(a) # Len(b) THEN (IF Len(a) < Len(b) THEN -1 ELSE 1)
    ELSE With(FirstDifference(a, b, 1, Len(a)), LAMBDA i :
             IF i > Len(a) THEN 0 ELSE IF a[i] < b[i] THEN -1 ELSE 1)

\* 2 * x: the carry into a digit is decided by the digit to its right alone
Double(x) ==
    IF x = << >> THEN << >>
    ELSE With(Tuple([i \in 1..Len(x) |->
                       ((2 * x[i]) % 10) + (IF i < Len(x) /\ x[i + 1] >= 5 THEN 1 ELSE 0)]),
              LAMBDA low : IF x[1] >= 5 THEN <<1>> \o low ELSE low)

\* x \div 2
Halve(x) ==
    IF x = << >> THEN << >>
    ELSE With(Tuple([i \in 1..Len(x) |->
                       (x[i] + (IF i > 1 /\ (x[i - 1] % 2) = 1 THEN 10 ELSE 0)) \div 2]),
              LAMBDA half : IF half[1] = 0 THEN Tail(half) ELSE half)

\* 5 * x
TimesFive(x) == IF x = << >> THEN << >> ELSE Halve(x \o <<0>>)

RECURSIVE TimesPow2(_, _)
\* x * 2^n
TimesPow2(x, n) ==
    IF n <= 0 THEN x
    ELSE IF n = 1 THEN Double(x)
    ELSE With(TimesPow2(x, n \div 2), LAMBDA half : TimesPow2(half, n - n \div 2))

RECURSIVE TimesPow5(_, _)
\* x * 5^n
TimesPow5(x, n) ==
    IF n <= 0 THEN x
    ELSE IF n = 1 THEN TimesFive(x)
    ELSE With(TimesPow5(x, n \div 2), LAMBDA half : TimesPow5(half, n - n \div 2))

RECURSIVE PlusOne(_)
\* x + 1
PlusOne(x) ==
    IF x = << >> THEN <<1>>
    ELSE IF x[Len(x)] < 9 THEN [x EXCEPT ![Len(x)] = @ + 1]
    ELSE PlusOne(SubSeq(x, 1, Len(x) - 1)) \o <<0>>

\* the carry into digit i of a + b, a and b of one length: the digits to the
\* right of i decide it where they first add up to something other than 9
CarryInto(a, b, i) ==
    With(FirstNotNine(a, b, i + 1, Len(a)), LAMBDA j :
        IF j <= Len(a) /\ a[j] + b[j] > 9 THEN 1 ELSE 0)

\* a + b
Plus(a, b) ==
    IF a = << >> THEN b
    ELSE IF b = << >> THEN a
    ELSE With(IF Len(a) > Len(b) THEN Len(a) ELSE Len(b), LAMBDA n :
         With(<<Pad(a, n), Pad(b, n)>>, LAMBDA p :
         With(Tuple([i \in 1..n |-> (p[1][i] + p[2][i] + CarryInto(p[1], p[2], i)) % 10]),
              LAMBDA low :
             IF CarryInto(p[1], p[2], 0) = 1 THEN <<1>> \o low ELSE low)))

\* the borrow from digit i of a - b, a and b of one length: the digits to the
\* right of i decide it where they first differ
BorrowFrom(a, b, i) ==
    With(FirstDifference(a, b, i + 1, Len(a)), LAMBDA j :
        IF j <= Len(a) /\ a[j] < b[j] THEN 1 ELSE 0)

\* a - b for a >= b
Minus(a, b) ==
    IF b = << >> THEN a
    ELSE With(Pad(b, Len(a)), LAMBDA p :
             Significant(Tuple([i \in 1..Len(a) |->
                                  (a[i] - p[i] - BorrowFrom(a, p, i) + 10) % 10])))

IsOdd(x) == x # << >> /\ (x[Len(x)] % 2) = 1

-----------------------------------------------------------------------------
(* The double nearest to digits * 10^e, and the shortest decimal that names
   it. A double is [m, q], the value m * 2^q with m below 2^53 and q at least
   -1074. *)

TwoTo52 == DigitsOf("4503599627370496")
TwoTo53 == DigitsOf("9007199254740992")

RECURSIVE GrowDivisor(_, _, _)
\* b doubled until a < 2b: <<a, b, the doublings made and those in e>>
GrowDivisor(a, b, e) ==
    With(Double(b), LAMBDA twice :
        IF Compare(a, twice) >= 0 THEN GrowDivisor(a, twice, e + 1) ELSE <<a, b, e>>)

RECURSIVE GrowDividend(_, _, _)
\* a doubled until a >= b
GrowDividend(a, b, e) ==
    IF Compare(a, b) < 0 THEN GrowDividend(Double(a), b, e - 1) ELSE <<a, b, e>>

\* <<a', b', e>> with a/b = (a'/b') * 2^e and 1 <= a'/b' < 2. A first run of
\* doublings is taken from the lengths (a digit is more than 3.321 bits).
Normalise(a, b) ==
    IF Compare(a, b) >= 0
    THEN With(((Len(a) - Len(b) - 1) * 3321) \div 1000, LAMBDA bits :
             With(IF bits < 0 THEN 0 ELSE bits, LAMBDA s :
                 GrowDivisor(a, TimesPow2(b, s), s)))
    ELSE With(((Len(b) - Len(a) - 1) * 3321) \div 1000, LAMBDA bits :
             With(IF bits < 0 THEN 0 ELSE bits, LAMBDA s :
                 GrowDividend(TimesPow2(a, s), b, 0 - s)))

RECURSIVE Bits(_, _, _)
\* the next n binary digits of a/b, which is below 2: <<the digits as a
\* whole number, the a that is left>>
Bits(a, b, n) ==
    IF n = 0 THEN <<<< >>, a>>
    ELSE IF n = 1
         THEN (IF Compare(a, b) >= 0 THEN <<<<1>>, Double(Minus(a, b))>>
               ELSE <<<< >>, Double(a)>>)
    ELSE With(Bits(a, b, n \div 2), LAMBDA high :
         With(Bits(high[2], b, n - n \div 2), LAMBDA low :
             <<Plus(TimesPow2(high[1], n - n \div 2), low[1]), low[2]>>))

\* the double nearest to digits * 10^e, ties to the even mantissa; the
\* mantissa has 53 bits, fewer below 2^-1022
Nearest(digits, e) ==
    With(IF e >= 0 THEN <<TimesPow5(digits, e), <<1>>>>
         ELSE <<digits, TimesPow5(<<1>>, 0 - e)>>, LAMBDA ratio :
    With(Normalise(ratio[1], ratio[2]), LAMBDA scaled :
    \* 2^top <= value < 2^(top + 1)
    With(scaled[3] + e, LAMBDA top :
    With(IF top + 1075 < 53 THEN top + 1075 ELSE 53, LAMBDA n :
        IF n < 0 THEN [m |-> << >>, q |-> -1074]
        ELSE With(Bits(scaled[1], scaled[2], n), LAMBDA bits :
             With(Compare(bits[2], scaled[2]), LAMBDA rest :
             With(IF rest > 0 \/ (rest = 0 /\ IsOdd(bits[1]))
                  THEN PlusOne(bits[1]) ELSE bits[1], LAMBDA m :
                 IF m = TwoTo53 THEN [m |-> TwoTo52, q |-> top - n + 2]
                 ELSE [m |-> m, q |-> top - n + 1])))))))

\* whether a decimal that lies d units under (over) the double x rounds to x;
\* the units are those of whole, in which the doubles around x are gap apart.
\* Under a power of two the doubles are half as far apart.
RoundsUpTo(x, d, gap) ==
    With(Compare(TimesPow2(d, IF x.m = TwoTo52 /\ x.q > -1074 THEN 2 ELSE 1), gap),
         LAMBDA side : side < 0 \/ (side = 0 /\ ~IsOdd(x.m)))
RoundsDownTo(x, d, gap) ==
    With(Compare(Double(d), gap), LAMBDA side : side < 0 \/ (side = 0 /\ ~IsOdd(x.m)))

\* <<digits, exp>> without the zeros at the end of digits
Shortened(digits, exp) ==
    With(LastNonZero(digits, 1, Len(digits)), LAMBDA end :
        <<SubSeq(digits, 1, end), exp + (Len(digits) - end)>>)

\* Number::toString, step 5, for one k: the decimal of k digits that lies
\* nearest to the double x if it rounds to x, << >> if none of k digits does.
\* whole * 10^exp is the value of x.
ShortestOf(x, whole, gap, exp, k) ==
    IF k >= Len(whole) THEN Shortened(whole, exp)
    ELSE With(SubSeq(whole, 1, k), LAMBDA head :
         With(Significant(SubSeq(whole, k + 1, Len(whole))), LAMBDA under :
         With(Len(whole) - k, LAMBDA cut :
             IF under = << >> THEN Shortened(head, exp + cut)
             ELSE With(Minus(<<1>> \o [i \in 1..cut |-> 0], under), LAMBDA over :
                  With(<<RoundsUpTo(x, under, gap), RoundsDownTo(x, over, gap)>>,
                       LAMBDA fits :
                  With(Compare(under, over), LAMBDA nearer :
                      IF fits[1] /\ (~fits[2] \/ nearer < 0 \/ (nearer = 0 /\ ~IsOdd(head)))
                      THEN Shortened(head, exp + cut)
                      ELSE IF fits[2] THEN Shortened(PlusOne(head), exp + cut)
                      ELSE << >>))))))

RECURSIVE ShortestFrom(_, _, _, _, _, _)
\* the decimal of the least k in lo..hi for which there is one, << >> if none
ShortestFrom(x, whole, gap, exp, lo, hi) ==
    IF lo = hi THEN ShortestOf(x, whole, gap, exp, lo)
    ELSE With(ShortestFrom(x, whole, gap, exp, lo, (lo + hi) \div 2), LAMBDA first :
             IF first # << >> THEN first
             ELSE ShortestFrom(x, whole, gap, exp, (lo + hi) \div 2 + 1, hi))

\* seventeen digits, one more than 2^53 has, tell any two doubles apart
MaxDigits == Len(TwoTo53) + 1

\* the shortest <<digits, exp>> that names the double x, x.m # 0
Shortest(x) ==
    With(IF x.q >= 0 THEN <<TimesPow2(x.m, x.q), TimesPow2(<<1>>, x.q), 0>>
         ELSE <<TimesPow5(x.m, 0 - x.q), TimesPow5(<<1>>, 0 - x.q), x.q>>, LAMBDA value :
        ShortestFrom(x, value[1], value[2], value[3], 1,
                     IF Len(value[1]) < MaxDigits THEN Len(value[1]) ELSE MaxDigits))

\* the number whose shortest decimal is digits * 10^exp, digits having no
\* zero at either end
Finite(neg, digits, exp) ==
    IF exp >= -1 /\ Len(digits) + exp <= 8
    THEN Tenths((IF neg THEN -1 ELSE 1) * NatVal(digits) * Power10(exp + 1))
    ELSE Decimal(neg, digits, exp)

\* the number with the given sign and the value digits * 10^exp, for any
\* digit string: the double nearest to it. A decimal of up to 15 digits
\* inside the range of the normal doubles is the shortest name of the double
\* nearest to it; any other is rounded digit by digit.
NumberOf(neg, digits, exp) ==
    With(StripLeadingZeros(digits), LAMBDA leading :
    With(StripZeros(leading), LAMBDA m :
    With(exp + (Len(leading) - Len(m)), LAMBDA e :
    With(Len(m) + e, LAMBDA point :
        IF m = "" THEN Tenths(0)
        ELSE IF Len(m) <= 15 /\ point >= -300 /\ point <= 300 THEN Finite(neg, m, e)
        \* 10^309 is beyond the doubles, 10^-324 below half the least of them
        ELSE IF point > 309 THEN Infinite(neg)
        ELSE IF point < -323 THEN Tenths(0)
        ELSE With(Nearest(DigitsOf(m), e), LAMBDA x :
                 IF x.m = << >> THEN Tenths(0)
                 ELSE IF x.q > 971 THEN Infinite(neg)
                 ELSE With(Shortest(x), LAMBDA name :
                          Finite(neg, DigitString(name[1]), name[2])))))))

\* the first position of e or E in t, 0 when there is none
ExponentMark(t) ==
    With(<<IndexOf(t, "e", 1), IndexOf(t, "E", 1)>>, LAMBDA at :
        IF at[1] = 0 THEN at[2]
        ELSE IF at[2] = 0 THEN at[1]
        ELSE IF at[1] < at[2] THEN at[1] ELSE at[2])

\* StrUnsignedDecimalLiteral: Infinity, or digits with an optional point and
\* an optional exponent part
UnsignedToNumber(t, neg) ==
    With(ExponentMark(t), LAMBDA mark :
    With(IF mark = 0 THEN t ELSE SubSeq(t, 1, mark - 1), LAMBDA body :
    With(IF mark = 0 THEN "" ELSE SubSeq(t, mark + 1, Len(t)), LAMBDA signed :
    With(IF signed # "" /\ Head(signed) \in {"+", "-"} THEN Tail(signed) ELSE signed,
         LAMBDA power :
    With(IndexOf(body, ".", 1), LAMBDA dot :
    With(IF dot = 0 THEN body ELSE SubSeq(body, 1, dot - 1), LAMBDA int :
    With(IF dot = 0 THEN "" ELSE SubSeq(body, dot + 1, Len(body)), LAMBDA frac :
        IF t = "Infinity" THEN Infinite(neg)
        ELSE IF (int = "" /\ frac = "") \/ ~AllDigits(int) \/ ~AllDigits(frac)
                \/ (mark # 0 /\ (power = "" \/ ~AllDigits(power)))
             THEN NaN
        \* an exponent of more than six digits is beyond every double
        ELSE IF Len(StripLeadingZeros(power)) > 6
             THEN IF StripLeadingZeros(int \o frac) = "" \/ Head(signed) = "-"
                  THEN Tenths(0) ELSE Infinite(neg)
        ELSE NumberOf(neg, int \o frac,
                      (IF signed # "" /\ Head(signed) = "-"
                       THEN 0 - NatVal(StripLeadingZeros(power))
                       ELSE NatVal(StripLeadingZeros(power))) - Len(frac)))))))))

\* the value of one digit in the given radix, -1 when it is none
RadixDigit(c, radix) ==
    With(IF Place("0123456789abcdef", c) > 0 THEN Place("0123456789abcdef", c)
         ELSE Place("0123456789ABCDEF", c), LAMBDA place :
        IF place = 0 \/ place > radix THEN -1 ELSE place - 1)

RECURSIVE TimesPlus(_, _, _)
\* the decimal digits of digits * factor + carry, factor <= 16
TimesPlus(digits, factor, carry) ==
    IF digits = "" THEN (IF carry = 0 THEN "" ELSE NatStr(carry))
    ELSE With(DigitVal(SubSeq(digits, Len(digits), Len(digits))) * factor + carry,
              LAMBDA product :
             TimesPlus(SubSeq(digits, 1, Len(digits) - 1), factor, product \div 10)
                 \o NatStr(product % 10))

RECURSIVE RadixDigits(_, _, _)
\* the decimal digits of the literal's digits t read in the radix, "" when a
\* character of t is no digit of the radix
RadixDigits(t, radix, sofar) ==
    IF t = "" THEN sofar
    ELSE IF RadixDigit(Head(t), radix) < 0 THEN ""
    ELSE RadixDigits(Tail(t), radix,
                     With(TimesPlus(sofar, radix, RadixDigit(Head(t), radix)),
                          LAMBDA next : IF next = "" THEN "0" ELSE next))

\* the radix a literal's two-character prefix stands for, 0 when it has none
RadixOf(t) ==
    IF Len(t) < 3 \/ Head(t) # "0" THEN 0
    ELSE CASE SubSeq(t, 2, 2) \in {"x", "X"} -> 16
           [] SubSeq(t, 2, 2) \in {"o", "O"} -> 8
           [] SubSeq(t, 2, 2) \in {"b", "B"} -> 2
           [] OTHER -> 0

\* StringToNumber: white space is stripped, the empty string is 0, a literal
\* with a radix prefix takes no sign, a decimal literal takes one
StringToNumber(s) ==
    With(trim(s), LAMBDA t :
        IF t = "" THEN Tenths(0)
        ELSE IF RadixOf(t) # 0
             THEN With(RadixDigits(SubSeq(t, 3, Len(t)), RadixOf(t), "0"), LAMBDA digits :
                      IF digits = "" THEN NaN ELSE NumberOf(FALSE, digits, 0))
        ELSE IF Head(t) \in {"+", "-"} THEN UnsignedToNumber(Tail(t), Head(t) = "-")
        ELSE UnsignedToNumber(t, FALSE))

\* Number(x)
Number(x) ==
    CASE x.k = "undefined" -> NaN
      [] x.k = "null" -> Tenths(0)
      [] x.k = "NaN" -> NaN
      [] x.k = "boolean" -> IF x.v THEN Tenths(10) ELSE Tenths(0)
      [] x.k \in {"number", "decimal", "Infinity"} -> x
      [] x.k = "string" -> StringToNumber(x.v)
      [] x.k = "array" -> StringToNumber(String(x))
      [] OTHER -> NaN

\* Number.isInteger
isInteger(x) ==
    \/ x.k = "number" /\ x.v % 10 = 0
    \/ x.k = "decimal" /\ x.exp >= 0

\* the whole part of the magnitude of a Decimal below 10^8
WholePart(x) ==
    IF Len(x.digits) + x.exp <= 0 THEN 0
    ELSE NatVal(SubSeq(x.digits, 1, Len(x.digits) + x.exp))

\* x < n and x > n for a number x and an integer n of at most eight digits;
\* no comparison holds of NaN
Below(x, n) ==
    CASE x.k = "number" -> x.v < 10 * n
      [] x.k = "Infinity" -> x.neg
      [] x.k = "decimal" ->
            IF Len(x.digits) + x.exp > 8 THEN x.neg
            ELSE IF x.neg THEN 0 - WholePart(x) <= n ELSE WholePart(x) < n
      [] OTHER -> FALSE
Above(x, n) ==
    CASE x.k = "number" -> x.v > 10 * n
      [] x.k = "Infinity" -> ~x.neg
      [] x.k = "decimal" ->
            IF Len(x.digits) + x.exp > 8 THEN ~x.neg
            ELSE IF x.neg THEN 0 - WholePart(x) > n ELSE WholePart(x) >= n
      [] OTHER -> FALSE

-----------------------------------------------------------------------------
(* Results of a call: a returned value or a thrown Error *)

Return(v) == [ok |-> TRUE, value |-> v]
Throw(message) == [ok |-> FALSE, error |-> message]

-----------------------------------------------------------------------------
(* Request validation *)

GeneratorKeys == {"astro", "numerology", "chrono", "oracle", "dynasty"}

GENERATOR_LABELS ==
    [astro |-> "Astrological Elixir Generator",
     numerology |-> "Name Numerology Mixer",
     chrono |-> "Birthday Chrono-Cocktail",
     oracle |-> "Personalized Palate Oracle",
     dynasty |-> "Dynastic Drink Dynasty"]

\* the properties every object literal inherits from Object.prototype
ObjectPrototypeKeys ==
    {"constructor", "hasOwnProperty", "isPrototypeOf", "propertyIsEnumerable",
     "toLocaleString", "toString", "valueOf", "__proto__",
     "__defineGetter__", "__defineSetter__", "__lookupGetter__", "__lookupSetter__"}

\* GENERATOR_LABELS[key]: an own property, else what the prototype chain holds
LabelLookup(key) ==
    IF key \in DOMAIN GENERATOR_LABELS THEN Str(GENERATOR_LABELS[key])
    ELSE IF key \in ObjectPrototypeKeys THEN [k |-> "function", v |-> key]
    ELSE Undefined

MinBirthYear == 1900

ErrPayloadMissing == "Generation payload is missing."
ErrGenerator == "An unsupported generator was selected."
ErrMonth == "Birth month must be an integer between 1 and 12."
ErrDay == "Birth day must be an integer between 1 and 31."
ErrYear == "Birth year is invalid or not provided."
ErrNames == "First name and last name are required for drink generation."

\* year is new Date().getFullYear()
sanitizeGenerationRequest_(payload, year) ==
    LET generatorKey == trim(String(Or(Get(payload, "generatorKey"), Str(""))))
        birthMonth == Number(Get(payload, "birthMonth"))
        birthDay == Number(Get(payload, "birthDay"))
        birthYear == Number(Get(payload, "birthYear"))
        firstName == trim(String(Or(Get(payload, "firstName"), Str(""))))
        lastName == trim(String(Or(Get(payload, "lastName"), Str(""))))
    IN IF ~Truthy(payload) THEN Throw(ErrPayloadMissing)
       ELSE IF ~Truthy(LabelLookup(generatorKey)) THEN Throw(ErrGenerator)
       ELSE IF ~isInteger(birthMonth) \/ Below(birthMonth, 1) \/ Above(birthMonth, 12)
            THEN Throw(ErrMonth)
       ELSE IF ~isInteger(birthDay) \/ Below(birthDay, 1) \/ Above(birthDay, 31)
            THEN Throw(ErrDay)
       ELSE IF ~isInteger(birthYear) \/ Below(birthYear, MinBirthYear)
                 \/ Above(birthYear, year)
            THEN Throw(ErrYear)
       ELSE IF firstName = "" \/ lastName = "" THEN Throw(ErrNames)
       ELSE Return([generatorKey |-> generatorKey,
                    birthMonth |-> birthMonth.v \div 10,
                    birthDay |-> birthDay.v \div 10,
                    birthYear |-> birthYear.v \div 10,
                    firstName |-> firstName,
                    lastName |-> lastName])

-----------------------------------------------------------------------------
(* 32-bit words, held as <<high 16 bits, low 16 bits>> *)

Half == 65536

Word(hi, lo) == <<hi, lo>>

RECURSIVE XorBits(_, _, _)
\* the exclusive or of the low n bits of a and b
XorBits(a, b, n) ==
    IF n = 0 THEN 0
    ELSE ((a + b) % 2) + 2 * XorBits(a \div 2, b \div 2, n - 1)

\* x ^ y
Xor(x, y) ==
    With(<<x, y>>, LAMBDA w :
        Word(XorBits(w[1][1], w[2][1], 16), XorBits(w[1][2], w[2][2], 16)))

\* x >>> 16
Shr16(x) == Word(0, x[1])

\* x >>> 13
Shr13(x) == Word(x[1] \div 8192, (x[1] % 8192) * 8 + x[2] \div 8192)

\* (x << 13) | (x >>> 19)
Rotl13(x) == Word((x[1] % 8) * 8192 + x[2] \div 8, (x[2] % 8) * 8192 + x[1] \div 8)

\* Math.imul(x, y): the low 32 bits of the product, summed by byte columns
imul(x, y) ==
    With(<<x[2] % 256, x[2] \div 256, x[1] % 256, x[1] \div 256>>, LAMBDA a :
    With(<<y[2] % 256, y[2] \div 256, y[1] % 256, y[1] \div 256>>, LAMBDA b :
    With(<<a[1] * b[1],
           a[1] * b[2] + a[2] * b[1],
           a[1] * b[3] + a[2] * b[2] + a[3] * b[1],
           a[1] * b[4] + a[2] * b[3] + a[3] * b[2] + a[4] * b[1]>>, LAMBDA c :
    With(c[1] + (c[2] % 256) * 256, LAMBDA t0 :
        Word((t0 \div Half + c[2] \div 256 + c[3] + (c[4] % 256) * 256) % Half,
             t0 % Half)))))

-----------------------------------------------------------------------------
(* Seeded PRNG *)

\* the printable ASCII characters in code order, from 32 on
Ascii ==
    " !\"#$%&'()*+,-./0123456789:;<=>?@ABCDEFGHIJKLMNOPQRSTUVWXYZ[\\]^_"
        \o Grave \o "abcdefghijklmnopqrstuvwxyz{|}~"

\* the other characters of the alphabet, each with its code unit
CodeOf ==
    <<<<"\t", 9>>, <<"\n", 10>>, <<VT, 11>>, <<"\f", 12>>, <<"\r", 13>>,
      <<NBSP, 160>>, <<MicroSign, 181>>, <<UpperCCedilla, 199>>, <<UpperEAcute, 201>>,
      <<UpperOAcute, 211>>, <<SharpS, 223>>, <<LowerCCedilla, 231>>,
      <<LowerEAcute, 233>>, <<LowerOAcute, 243>>, <<LowerYDiaeresis, 255>>,
      <<DotlessI, 305>>, <<UpperYDiaeresis, 376>>, <<LongS, 383>>, <<UpperMu, 924>>,
      <<LowerMu, 956>>, <<LineSeparator, 8232>>, <<Bullet, 8226>>,
      <<KelvinSign, 8490>>, <<BOM, 65279>>>>

\* seed.charCodeAt(i)
charCodeAt(s, i) ==
    LET c == SubSeq(s, i, i)
    IN IF \E n \in 1..Len(Ascii) : SubSeq(Ascii, n, n) = c
       THEN 31 + (CHOOSE n \in 1..Len(Ascii) : SubSeq(Ascii, n, n) = c)
       ELSE CodeOf[CHOOSE n \in 1..Len(CodeOf) : CodeOf[n][1] = c][2]

SeedInit == Word(27145, 58983)      \* 1779033703
SeedMul == Word(52382, 11601)       \* 3432918353
DrawMul1 == Word(34283, 51819)      \* 2246822507
DrawMul2 == Word(49842, 44597)      \* 3266489909

IsWord(w) == w[1] \in 0..(Half - 1) /\ w[2] \in 0..(Half - 1)

RECURSIVE MixSeed(_, _, _, _)
\* the loop of createDeterministicRandom_ over the characters from..to of the
\* seed, in order; the range is halved, and each half's word is computed
\* before the next starts, only to keep the evaluation shallow
MixSeed(h, seed, from, to) ==
    IF from > to THEN h
    ELSE IF from = to
         THEN Rotl13(imul(Xor(h, Word(0, charCodeAt(seed, from))), SeedMul))
         ELSE With(MixSeed(h, seed, from, (from + to) \div 2), LAMBDA mixed :
                  IF IsWord(mixed)
                  THEN MixSeed(mixed, seed, (from + to) \div 2 + 1, to)
                  ELSE mixed)



\* the state h the returned closure starts from
createDeterministicRandom_(seed) ==
    MixSeed(Xor(SeedInit, Word(Len(seed) \div Half, Len(seed) % Half)), seed, 1, Len(seed))

\* one call of the closure, lines 902-904: the bits it leaves in h
random(h) ==
    With(imul(Xor(h, Shr16(h)), DrawMul1), LAMBDA h1 :
    With(imul(Xor(h1, Shr13(h1)), DrawMul2), LAMBDA h2 :
        Xor(h2, Shr16(h2))))


\* the number a 32-bit pattern stands for as the result of ^ or Math.imul, a
\* signed integer: <<high half, negative from 2^15 on, low half>>, the
\* number being high * 2^16 + low
ToInt32(w) == <<IF w[1] >= Half \div 2 THEN w[1] - Half ELSE w[1], w[2]>>

\* n >>> 0: the signed integer read as unsigned
ToUint32(n) == <<n[1] % Half, n[2]>>

\* line 905: (h >>> 0) / 4294967296 for the bits h holds, as the numerator
\* over 2^32, <<high half, low half>>
Quotient(h) == ToUint32(ToInt32(h))

\* 0 <= numerator / 2^32 < 1
InUnitInterval(v) == v[1] \in 0..(Half - 1) /\ v[2] \in 0..(Half - 1)

\* Math.floor(random() * n) for the state h the draw left, 1 <= n < 2^15
FloorTimes(h, n) == (h[1] * n + (h[2] * n) \div Half) \div Half

-----------------------------------------------------------------------------
(* Selection utilities. A random source is [h, draws]: the closure's state and
   the number of calls made on it. *)

Source(h) == [h |-> h, draws |-> 0]

Draw(rnd) == With(rnd, LAMBDA r : [h |-> random(r.h), draws |-> r.draws + 1])

\* randomPick_: <<element or Null marker, random source after the call>>
NoPick == "null"
\* a pick that throws one value away before it draws the index
randomPickTwice_(rnd, collection) ==
    IF Len(collection) = 0 THEN [value |-> NoPick, rnd |-> rnd]
    ELSE With(Draw(Draw(rnd)), LAMBDA after :
             [value |-> collection[FloorTimes(after.h, Len(collection)) + 1],
              rnd |-> after])

\* randomPick_ on an array
randomPick_(rnd, collection) ==
    IF Len(collection) = 0 THEN [value |-> NoPick, rnd |-> rnd]
    ELSE With(Draw(rnd), LAMBDA after :
             [value |-> collection[FloorTimes(after.h, Len(collection)) + 1],
              rnd |-> after])

\* randomPick_ on any value: !collection is tested before the length
randomPickOf_(rnd, collection) ==
    IF ~Truthy(collection) THEN [value |-> NoPick, rnd |-> rnd]
    ELSE randomPick_(rnd, collection.v)

\* available.splice(index, 1): the list without its element at 0-based index
Splice(seq, index) == SubSeq(seq, 1, index) \o SubSeq(seq, index + 2, Len(seq))


\* Arrays are held by reference: arrays is the list of the arrays alive, a
\* reference is an index into it.

\* no copy: the reference handed back is the one given
sliceNone(arrays, ref) == [arrays |-> arrays, ref |-> ref]

\* options.slice(): a new array with the elements of the one referred to
slice(arrays, ref) == [arrays |-> Append(arrays, arrays[ref]), ref |-> Len(arrays) + 1]

RECURSIVE SelectLoop(_, _, _, _, _)
\* the while loop of buildUniqueSelection_, lines 920-923; available is a
\* reference
SelectLoop(rnd, arrays, available, selection, count) ==
    IF Len(selection) < count /\ Len(arrays[available]) > 0
    THEN With(Draw(rnd), LAMBDA after :
         With(FloorTimes(after.h, Len(arrays[available])), LAMBDA index :
             SelectLoop(after,
                        [arrays EXCEPT ![available] = Splice(@, index)],
                        available,
                        Append(selection, arrays[available][index + 1]), count)))
    ELSE [value |-> selection, rnd |-> rnd, arrays |-> arrays]

\* lines 917-925, called with the array options: the selection returned, the
\* random source after the call, and options as the call leaves the
\* caller's array
buildUniqueSelection_(rnd, options, count) ==
    With(slice(<<options>>, 1), LAMBDA copy :
    With(SelectLoop(rnd, copy.arrays, copy.ref, <<>>, count), LAMBDA loop :
        [value |-> loop.value, rnd |-> loop.rnd, options |-> loop.arrays[1]]))

-----------------------------------------------------------------------------
(* Context builder *)

Upper == "ABCDEFGHIJKLMNOPQRSTUVWXYZ"
Lower == "abcdefghijklmnopqrstuvwxyz"

\* the letters of the alphabet beyond ASCII that have another case
OtherUpper == UpperEAcute \o UpperOAcute \o UpperCCedilla \o UpperYDiaeresis \o UpperMu
OtherLower == LowerEAcute \o LowerOAcute \o LowerCCedilla \o LowerYDiaeresis \o LowerMu

\* toUpperCase of one character: the sharp s becomes two letters, the
\* dotless i and the long s become ASCII letters, the micro sign a Greek one
UpperChar(c) ==
    IF Place(Lower, c) > 0 THEN SubSeq(Upper, Place(Lower, c), Place(Lower, c))
    ELSE IF Place(OtherLower, c) > 0
         THEN SubSeq(OtherUpper, Place(OtherLower, c), Place(OtherLower, c))
    ELSE IF c = SharpS THEN "SS"
    ELSE IF c = DotlessI THEN "I"
    ELSE IF c = LongS THEN "S"
    ELSE IF c = MicroSign THEN UpperMu
    ELSE c

\* toLowerCase of one character: the Kelvin sign becomes an ASCII letter
LowerChar(c) ==
    IF Place(Upper, c) > 0 THEN SubSeq(Lower, Place(Upper, c), Place(Upper, c))
    ELSE IF Place(OtherUpper, c) > 0
         THEN SubSeq(OtherLower, Place(OtherUpper, c), Place(OtherUpper, c))
    ELSE IF c = KelvinSign THEN "k"
    ELSE c

RECURSIVE toUpperCase(_)
toUpperCase(s) == IF s = "" THEN "" ELSE UpperChar(Head(s)) \o toUpperCase(Tail(s))

RECURSIVE toLowerCase(_)
toLowerCase(s) == IF s = "" THEN "" ELSE LowerChar(Head(s)) \o toLowerCase(Tail(s))

\* s[0] || ''
FirstChar(s) == IF s = "" THEN "" ELSE Head(s)

\* the regular expression tests /^p/ and /p$/
StartsWith(s, p) == Len(s) >= Len(p) /\ SubSeq(s, 1, Len(p)) = p
EndsWith(s, p) == Len(s) >= Len(p) /\ SubSeq(s, Len(s) - Len(p) + 1, Len(s)) = p

RECURSIVE LetterSum(_)
\* the sum of charCodeAt - 64 over the letters A-Z of an upper-cased text
LetterSum(s) ==
    IF s = "" THEN 0 ELSE Place(Upper, Head(s)) + LetterSum(Tail(s))

RECURSIVE DigitSum(_)
DigitSum(n) == IF n < 10 THEN n ELSE (n % 10) + DigitSum(n \div 10)

RECURSIVE ReduceDigits(_)
\* while (total > 9) total = the sum of its digits
ReduceDigits(total) == IF total > 9 THEN ReduceDigits(DigitSum(total)) ELSE total

\* the reduced total returned as it is
computeNumerologyUnfloored_(text) == ReduceDigits(LetterSum(toUpperCase(text)))

computeNumerologyValue_(text) ==
    LET total == ReduceDigits(LetterSum(toUpperCase(text)))
    IN IF total < 1 THEN 1 ELSE total

inferLineage_(lastName) ==
    LET lower == toLowerCase(lastName)
    IN IF EndsWith(lower, "ini") \/ EndsWith(lower, "one") \/ EndsWith(lower, "etti")
       THEN "italian"
       ELSE IF StartsWith(lower, "o'") \/ StartsWith(lower, "mc")
               \/ StartsWith(lower, "mac") \/ EndsWith(lower, "han")
       THEN "irish"
       ELSE IF EndsWith(lower, "ez") \/ EndsWith(lower, "es")
               \/ EndsWith(lower, "ado") \/ EndsWith(lower, "illo")
       THEN "spanish"
       ELSE IF lower = "ito" \/ lower = "shi" \/ EndsWith(lower, "moto")
               \/ EndsWith(lower, "sato") \/ EndsWith(lower, "-san")
       THEN "japanese"
       ELSE IF EndsWith(lower, "eau") \/ EndsWith(lower, "ette")
               \/ EndsWith(lower, "mont") \/ EndsWith(lower, "eux")
       THEN "french"
       ELSE IF EndsWith(lower, "sen") \/ EndsWith(lower, "son")
               \/ EndsWith(lower, "gaard") \/ EndsWith(lower, "strom")
       THEN "nordic"
       ELSE "default"

inferBirthSeason_(month) ==
    IF month \in {12, 1, 2} THEN "winter"
    ELSE IF month \in {3, 4, 5} THEN "spring"
    ELSE IF month \in {6, 7, 8} THEN "summer"
    ELSE "autumn"

ZodiacProfiles ==
    << [sign |-> "Capricorn", start |-> <<12, 22>>, end |-> <<1, 19>>, element |-> "Earth",
        signatureSpirit |-> "smoky scotch",
        accentNotes |-> <<"black walnut", "roasted barley", "cocoa bitters">>,
        garnishes |-> <<"candied ginger", "charred rosemary">>],
       [sign |-> "Aquarius", start |-> <<1, 20>>, end |-> <<2, 18>>, element |-> "Air",
        signatureSpirit |-> "aquavit",
        accentNotes |-> <<"violet liqueur", "sparkling sake", "blue citrus">>,
        garnishes |-> <<"edible flower constellation", "citrus spiral">>],
       [sign |-> "Pisces", start |-> <<2, 19>>, end |-> <<3, 20>>, element |-> "Water",
        signatureSpirit |-> "silver rum",
        accentNotes |-> <<"elderflower", "sea-salt caramel", "cucumber essence">>,
        garnishes |-> <<"lotus petal", "sea mist">>],
       [sign |-> "Aries", start |-> <<3, 21>>, end |-> <<4, 19>>, element |-> "Fire",
        signatureSpirit |-> "pepper tequila",
        accentNotes |-> <<"ancho chile", "blood orange", "ginger fire">>,
        garnishes |-> <<"flamed citrus peel", "piment" \o LowerOAcute \o "n rim">>],
       [sign |-> "Taurus", start |-> <<4, 20>>, end |-> <<5, 20>>, element |-> "Earth",
        signatureSpirit |-> "bourbon",
        accentNotes |-> <<"vanilla bean", "toasted pecan", "fig syrup">>,
        garnishes |-> <<"cocoa-dusted leaf", "torched thyme">>],
       [sign |-> "Gemini", start |-> <<5, 21>>, end |-> <<6, 20>>, element |-> "Air",
        signatureSpirit |-> "gin",
        accentNotes |-> <<"citrus mist", "white tea", "champagne cordial">>,
        garnishes |-> <<"lemon twist", "sugar shard">>],
       [sign |-> "Cancer", start |-> <<6, 21>>, end |-> <<7, 22>>, element |-> "Water",
        signatureSpirit |-> "dark rum",
        accentNotes |-> <<"coconut cream", "hibiscus", "molasses">>,
        garnishes |-> <<"tropical flower", "toasted coconut">>],
       [sign |-> "Leo", start |-> <<7, 23>>, end |-> <<8, 22>>, element |-> "Fire",
        signatureSpirit |-> "spiced rum",
        accentNotes |-> <<"passionfruit", "saffron honey", "cinnamon blaze">>,
        garnishes |-> <<"golden mango fan", "sparkler sugar rim">>],
       [sign |-> "Virgo", start |-> <<8, 23>>, end |-> <<9, 22>>, element |-> "Earth",
        signatureSpirit |-> "herbal vermouth",
        accentNotes |-> <<"green apple", "sage dew", "white pepper">>,
        garnishes |-> <<"apple ribbon", "sage leaf">>],
       [sign |-> "Libra", start |-> <<9, 23>>, end |-> <<10, 22>>, element |-> "Air",
        signatureSpirit |-> "sparkling ros" \o LowerEAcute,
        accentNotes |-> <<"lavender", "pink peppercorn", "pear nectar">>,
        garnishes |-> <<"rose petal", "sugar lace">>],
       [sign |-> "Scorpio", start |-> <<10, 23>>, end |-> <<11, 21>>, element |-> "Water",
        signatureSpirit |-> "mezcal",
        accentNotes |-> <<"blackberry smoke", "cocoa nib", "charred citrus">>,
        garnishes |-> <<"obsidian salt rim", "cocoa mist">>],
       [sign |-> "Sagittarius", start |-> <<11, 22>>, end |-> <<12, 21>>, element |-> "Fire",
        signatureSpirit |-> "rye whiskey",
        accentNotes |-> <<"spiced maple", "cranberry flame", "ginger snap">>,
        garnishes |-> <<"sparked cinnamon stick", "dried orange wheel">> ] >>

\* the days of the leap year 2000 that precede each month
DaysBefore2000 == <<0, 31, 60, 91, 121, 152, 182, 213, 244, 274, 305, 335>>

\* new Date(2000, month - 1, day) as a day of the year 2000: a day beyond the
\* month's end rolls into the next month, as Date does
DayOf2000(month, day) == DaysBefore2000[month] + day

RECURSIVE ZodiacFromExclusive(_, _)
\* the loop with intervals that leave out their first and last day
ZodiacFromExclusive(target, i) ==
    IF i > Len(ZodiacProfiles) THEN ZodiacProfiles[1]
    ELSE LET profile == ZodiacProfiles[i]
             startDate == DayOf2000(profile.start[1], profile.start[2])
             endDate == DayOf2000(profile.end[1], profile.end[2])
         IN IF startDate <= endDate
            THEN IF target > startDate /\ target < endDate
                 THEN profile ELSE ZodiacFromExclusive(target, i + 1)
            ELSE IF target > startDate \/ target < endDate
                 THEN profile ELSE ZodiacFromExclusive(target, i + 1)

RECURSIVE ZodiacFrom(_, _)
\* the for loop of getZodiacProfile_ from profile i on
ZodiacFrom(target, i) ==
    IF i > Len(ZodiacProfiles) THEN ZodiacProfiles[1]
    ELSE LET profile == ZodiacProfiles[i]
             startDate == DayOf2000(profile.start[1], profile.start[2])
             endDate == DayOf2000(profile.end[1], profile.end[2])
         IN IF startDate <= endDate
            THEN IF target >= startDate /\ target <= endDate
                 THEN profile ELSE ZodiacFrom(target, i + 1)
            ELSE IF target >= startDate \/ target <= endDate
                 THEN profile ELSE ZodiacFrom(target, i + 1)

getZodiacProfile_(month, day) == ZodiacFrom(DayOf2000(month, day), 1)

\* [..].join('|') of the request fields
SeedOf(request) ==
    request.generatorKey \o "|" \o NatStr(request.birthMonth) \o "|"
        \o NatStr(request.birthDay) \o "|" \o NatStr(request.birthYear) \o "|"
        \o request.firstName \o "|" \o request.lastName

buildGenerationContext_(request) ==
    [generatorKey |-> request.generatorKey,
     generatorLabel |-> LabelLookup(request.generatorKey),
     birthMonth |-> request.birthMonth,
     birthDay |-> request.birthDay,
     birthYear |-> request.birthYear,
     firstName |-> request.firstName,
     lastName |-> request.lastName,
     zodiac |-> getZodiacProfile_(request.birthMonth, request.birthDay),
     numerology |-> computeNumerologyValue_(request.firstName \o " " \o request.lastName),
     initials |-> toUpperCase(FirstChar(request.firstName))
                    \o toUpperCase(FirstChar(request.lastName)),
     lineage |-> inferLineage_(request.lastName),
     random |-> Source(createDeterministicRandom_(SeedOf(request))),
     seed |-> SeedOf(request)]

-----------------------------------------------------------------------------
(* Generator table. A generator returns [blueprint, rnd]: the blueprint and
   the random source as its draws left it. *)

RECURSIVE JoinStrings(_, _)
\* Array.prototype.join on an array of strings
JoinStrings(seq, sep) ==
    IF Len(seq) = 0 THEN ""
    ELSE IF Len(seq) = 1 THEN seq[1]
    ELSE seq[1] \o sep \o JoinStrings(Tail(seq), sep)

\* String(n) of an integer
IntStr(n) == IF n < 0 THEN "-" \o NatStr(0 - n) ELSE NatStr(n)

\* Math.floor((h * n + c * 2^16) / 2^(16 + k)) for the 32-bit word h
ScaledFloor(h, n, c, k) == (h[1] * n + c + (h[2] * n) \div Half) \div (2 ^ k)

\* Math.round(78 + random() * 20) for the state h the draw left: the sum is
\* exact in a double, so the rounding is floor(78 + h * 5 / 2^30 + 1/2)
CompatibilityScore(h) == 78 + ScaledFloor(h, 5, 8192, 14)

\* hundredths / 100 with two decimals
Fixed2(hundredths) ==
    NatStr(hundredths \div 100) \o "." \o NatStr((hundredths % 100) \div 10)
        \o NatStr(hundredths % 10)

\* (0.5 + random() * 0.5).toFixed(2): the nearest hundredth of 1/2 + h / 2^33,
\* the larger one on a tie
HoneyMeasure(h) == Fixed2(ScaledFloor(h, 100, 101 * Half, 17))

FlavorProfiles ==
    << "amber agave warmth", "botanical brightness", "citrus sparkle", "dusky spice",
       "effervescent elegance", "forest herb whisper", "ginger glow", "honeyed harmony",
       "icy intrigue", "juicy jubilance", "kaleidoscopic kick", "lush luxe layers",
       "midnight mystique", "nectar nuance", "opulent orange zest", "plush petal softness",
       "quartz-clear crispness", "radiant rouge", "simmering sour starlight",
       "twilight tonic", "utopian umami", "velvet verdant vibes", "whispering woodland",
       "xenial exotic energy", "yonder citrus yawn", "zenithal zest" >>

\* a table keyed by the letters A-Z, with the default of an absent key
ByLetter(table, c, default) ==
    IF Place(Upper, c) > 0 THEN table[Place(Upper, c)] ELSE default

MixerOptions ==
    <<"sparkling tonic", "hibiscus tea", "charred pineapple juice",
      "lunar lychee nectar", "smoked maple water">>

\* three layers whatever the length
ComplexityFixed(length) == 3

\* Math.min(5, Math.max(3, Math.ceil(length / 3)))
Complexity(length) ==
    LET ceil == (length + 2) \div 3
        atLeast == IF ceil < 3 THEN 3 ELSE ceil
    IN IF atLeast > 5 THEN 5 ELSE atLeast

generateAstrologicalElixir_(context) ==
    With(Complexity(Len(context.lastName)), LAMBDA complexity :
    With(context.zodiac.signatureSpirit, LAMBDA baseSpirit :
    With(randomPick_(context.random, context.zodiac.accentNotes), LAMBDA accent :
    With(randomPick_(accent.rnd, context.zodiac.garnishes), LAMBDA garnish :
    With(buildUniqueSelection_(garnish.rnd, MixerOptions, complexity - 2), LAMBDA mixers :
    With(Draw(mixers.rnd), LAMBDA score :
    With(toUpperCase(FirstChar(context.firstName)), LAMBDA initial :
       [blueprint |->
          [drinkName |-> context.zodiac.sign \o " Starfall " \o initial,
           reason |->
              "The " \o context.zodiac.sign \o " constellation crowns you with "
                \o context.zodiac.element \o " energy, so your elixir leans on "
                \o baseSpirit \o ". " \o "Your first initial invites "
                \o ByLetter(FlavorProfiles, initial, "stellar balance")
                \o ", while the length of the " \o context.lastName
                \o " lineage calls for " \o NatStr(complexity) \o " cosmic layers.",
           ingredients |->
              <<baseSpirit \o " - 2 oz", accent.value \o " liqueur - 0.75 oz">>
                \o [i \in 1..Len(mixers.value) |-> mixers.value[i] \o " - 1 oz"]
                \o <<garnish.value \o " for garnish">>,
           instructions |->
              <<"Stir the " \o baseSpirit \o " and " \o accent.value
                  \o " with ice to honor your celestial patience.",
                "Cascade in " \o JoinStrings(mixers.value, ", ") \o " to echo the "
                  \o toLowerCase(context.zodiac.element) \o " element.",
                "Strain into a chilled coupe and float " \o garnish.value
                  \o " as your guiding star.">>,
           compatibility |->
              "Cosmic compatibility: " \o NatStr(CompatibilityScore(score.h)) \o "%"],
        rnd |-> score])))))))

SpiritMap ==
    <<"crystal vodka", "botanical gin", "aged rum", "silky tequila", "smoked whisky",
      "velvet brandy", "sapphire gin", "amber bourbon", "elegant sake">>

RandomGarnishes ==
    <<"lucky starfruit twist", "destiny-dusted cocoa nibs", "fortune basil crown",
      "prophecy orchid petal">>

generateNameNumerologyMixer_(context) ==
    With(IF context.numerology \in 1..Len(SpiritMap)
         THEN SpiritMap[context.numerology] ELSE "artisan vodka", LAMBDA baseSpirit :
    With((context.birthMonth % 3) + 1, LAMBDA monthMeasure :
    \* (birthDay / 10).toFixed(1)
    With(NatStr(context.birthDay \div 10) \o "." \o NatStr(context.birthDay % 10),
         LAMBDA dayMeasure :
    With(context.birthYear % 100, LAMBDA yearSeed :
    With(randomPick_(context.random, RandomGarnishes), LAMBDA garnish :
    With(Draw(garnish.rnd), LAMBDA honey :
       [blueprint |->
          [drinkName |-> "Life Path Libation " \o NatStr(context.numerology),
           reason |->
              "Numerology total " \o NatStr(context.numerology) \o " aligns you with "
                \o baseSpirit \o ", while your birth timing sets the measures to "
                \o NatStr(monthMeasure) \o " oz of inspiration and " \o dayMeasure
                \o " oz of intuition. A birth-year seed of " \o NatStr(yearSeed)
                \o " sprinkles mystical garnish.",
           ingredients |->
              <<baseSpirit \o " - " \o NatStr(monthMeasure) \o " oz",
                "illuminated citrus cordial - " \o dayMeasure \o " oz",
                "moonlit jasmine tea - " \o NatStr(1 + (yearSeed % 3)) \o " dashes",
                "starlit honey syrup - " \o HoneyMeasure(honey.h) \o " oz",
                garnish.value>>,
           instructions |->
              <<"Combine " \o baseSpirit
                  \o ", citrus cordial, and jasmine tea over sacred crushed ice.",
                "Whisper your life path number while stirring exactly "
                  \o NatStr(context.numerology + 2) \o " times.",
                "Strain into a chilled highball and finish with " \o garnish.value \o ".">>,
           compatibility |->
              "Destined harmony: infuse for " \o NatStr((context.birthDay % 5) + 2)
                \o " breaths."],
        rnd |-> honey]))))))

DecadeSpiritMap ==
    <<"yuzu shochu", "silver tequila", "barrel-aged gin", "rye whisky", "caribbean rum",
      "cognac", "mezcal", "plum brandy", "aquavit", "amarone vermouth">>

MixerMap ==
    <<"crimson campari", "sakura syrup", "smoked pear nectar", "coconut water",
      "charcoal tonic", "cacao cold brew", "vermouth mist", "passionfruit cloud">>

InitialsFlavors ==
    << "almond and apricot spark", "bourbon bark balance", "cacao and citrus pop",
       "dragonfruit dynamism", "elderflower echo", "fig and fennel warmth",
       "grapefruit glow", "hibiscus hum", "iris ice intrigue", "juniper jazz",
       "kumquat kick", "lemongrass lift", "minted meteor trail", "nutmeg nuance",
       "orchid opulence", "peppercorn pulse", "quince quickstep", "rosewater radiance",
       "saffron spark", "tamarind twist", "ume uplift", "vermouth velvet",
       "walnut wonder", "xocolatl excitement", "yuzu yearn", "zest zenith" >>

buildInitialsFlavor_(initials) ==
    JoinStrings([i \in 1..Len(initials) |->
                    ByLetter(InitialsFlavors, SubSeq(initials, i, i), "starlit surprise")],
                " & ")

IsLeapYear(y) == (y % 4 = 0 /\ y % 100 # 0) \/ y % 400 = 0

DaysBeforeMonth == <<0, 31, 59, 90, 120, 151, 181, 212, 243, 273, 304, 334>>

\* new Date() in the script's time zone: the local date y-m-d, the minutes
\* min since local midnight, and shift, the minutes by which the zone's UTC
\* offset at this moment exceeds its offset at local midnight of the birth
\* date of the request at hand (60 for a winter birth read in summer time,
\* -60 the other way round, 0 in a zone that never moves its clocks)
Clock(y, m, d, min, shift) == [y |-> y, m |-> m, d |-> d, min |-> min, shift |-> shift]

\* the day number of the local date of new Date(y, m - 1, d); a day beyond the
\* month's end rolls over as Date does
DayNumber(y, m, d) ==
    365 * y + (y - 1) \div 4 - (y - 1) \div 100 + (y - 1) \div 400
        + DaysBeforeMonth[m] + (IF IsLeapYear(y) /\ m > 2 THEN 1 ELSE 0) + d

\* Math.floor((today.getTime() - birthDate.getTime()) / 86400000): the time
\* elapsed is the local time elapsed since local midnight of the birth date
\* less the shift of the zone's offset in between
AgeInDays(context, now) ==
    ((DayNumber(now.y, now.m, now.d)
         - DayNumber(context.birthYear, context.birthMonth, context.birthDay)) * 1440
        + now.min - now.shift) \div 1440

\* Math.min(decadeSpiritMap.length - 1, Math.floor(ageInDays / 3650)), 0-based
SpiritIndex(ageInDays) ==
    IF ageInDays \div 3650 > Len(DecadeSpiritMap) - 1
    THEN Len(DecadeSpiritMap) - 1 ELSE ageInDays \div 3650

\* (today.getMonth() + 1 + today.getDate()) % mixerMap.length, 0-based
MutationIndex(now) == (now.m + now.d) % Len(MixerMap)

generateBirthdayChronoCocktail_(context, now) ==
    With(AgeInDays(context, now), LAMBDA ageInDays :
    With(SpiritIndex(ageInDays), LAMBDA spiritIndex :
    \* an index outside the array reads undefined
    With(IF spiritIndex \in 0..(Len(DecadeSpiritMap) - 1)
         THEN DecadeSpiritMap[spiritIndex + 1] ELSE "undefined", LAMBDA spirit :
    With(randomPick_(context.random, MixerMap), LAMBDA mixer :
    With(MutationIndex(now), LAMBDA mutationIndex :
    With(MixerMap[mutationIndex + 1], LAMBDA mutation :
    With(buildInitialsFlavor_(context.initials), LAMBDA initialsFlavor :
       [blueprint |->
          [drinkName |-> "Chrono Cascade " \o context.initials,
           reason |->
              "A lifetime of " \o IntStr(ageInDays)
                \o " days seeds this chrono-cocktail. Your decade spirit is " \o spirit
                \o ", initials spark " \o initialsFlavor
                \o ", and today's temporal mutation invites a swap to " \o mutation \o ".",
           ingredients |->
              <<spirit \o " - 1.75 oz",
                mixer.value \o " - 1 oz",
                mutation \o " - 0.5 oz (rebirth twist)",
                "temporal bitters - " \o NatStr((context.birthDay % 4) + 1) \o " dashes",
                "evolving citrus zest mist">>,
           instructions |->
              <<"Shake spirits and mixers with glacial cubes to honor the days gone by.",
                "Double strain into a chilled rocks glass over a single sphere of ice.",
                "Express the evolving zest and announce the rebirth variation aloud.">>,
           compatibility |->
              "Evolves again in "
                \o NatStr(((context.birthMonth * context.birthDay) % 9) + 1) \o " days."],
        rnd |-> mixer.rnd])))))))

Archetypes == <<"bold", "silken", "herbaceous", "radiant", "smoky", "effervescent">>

SeasonalIngredients ==
    [winter |-> <<"frosted rosemary", "candied cranberry", "smoked vanilla">>,
     spring |-> <<"green strawberry", "basil blossom", "matcha honey">>,
     summer |-> <<"grilled mango", "coconut foam", "tamarind breeze">>,
     autumn |-> <<"caramelized fig", "sage syrup", "pecan spice dust">>]

BaseSpirits ==
    <<"white rum", "aged cacha" \o LowerCCedilla \o "a", "botanical aquavit", "citrus gin", "rice vodka">>

Pairings == <<"saffron brittle", "sea-salt dark chocolate", "citrus madeleine">>

generatePersonalizedPalateOracle_(context) ==
    With(randomPick_(context.random, Archetypes), LAMBDA archetype :
    With(inferBirthSeason_(context.birthMonth), LAMBDA season :
    With(SeasonalIngredients[season], LAMBDA ingredientSet :
    With(randomPick_(archetype.rnd, BaseSpirits), LAMBDA baseSpirit :
    With(randomPick_(baseSpirit.rnd, Pairings), LAMBDA pairing :
       [blueprint |->
          [drinkName |-> "Oracle Reverie " \o toUpperCase(FirstChar(season)),
           reason |->
              "Oracle reading: the cadence of " \o context.firstName \o " "
                \o context.lastName \o " resonates as " \o archetype.value
                \o ". Birth season " \o season \o " blesses you with "
                \o JoinStrings(ingredientSet, ", ")
                \o " and the name's rhythm chooses " \o baseSpirit.value \o ".",
           ingredients |->
              <<baseSpirit.value \o " - 2 oz",
                ingredientSet[1] \o " puree - 1 oz",
                ingredientSet[2] \o " cordial - 0.5 oz",
                ingredientSet[3] \o " tincture - 3 drops",
                "oracle foam - 1 scoop">>,
           instructions |->
              <<"Dry shake all ingredients to awaken the oracle foam.",
                "Add ice, shake vigorously, and strain into a stemmed glass.",
                "Serve alongside " \o pairing.value \o " for harmonious alignment.">>,
           compatibility |-> "Oracle pairing: " \o pairing.value],
        rnd |-> pairing.rnd])))))

LineageBase ==
    [italian |-> <<"amaro", "lambrusco reduction">>,
     irish |-> <<"triple-distilled whiskey", "heather honey">>,
     spanish |-> <<"oloroso sherry", "blood orange cordial">>,
     japanese |-> <<"ume plum sake", "yuzu kosho syrup">>,
     french |-> <<"cognac", "lavender syrup">>,
     nordic |-> <<"aquavit", "cloudberry jam">>,
     default |-> <<"heritage rum", "spiced panela">>]

EvolutionOptions == <<"Ancestor Edition", "Sibling Spin", "Heirloom Remix", "Legacy Lift">>

generateDynasticDrinkDynasty_(context) ==
    With(IF context.lineage \in DOMAIN LineageBase
         THEN LineageBase[context.lineage] ELSE LineageBase["default"], LAMBDA baseSet :
    With((context.birthMonth * 100 + context.birthDay) % 10, LAMBDA ratioSeed :
    With(ratioSeed % 5, LAMBDA spiceLevel :
    With(randomPick_(context.random, EvolutionOptions), LAMBDA evolution :
       [blueprint |->
          [drinkName |-> context.lastName \o " Dynasty Draught",
           reason |->
              "Family lineage detected as " \o context.lineage
                \o ", guiding the base to " \o baseSet[1]
                \o ". Birthday digits craft ratio seed " \o NatStr(ratioSeed)
                \o " and spice level " \o NatStr(spiceLevel) \o ", birthing the "
                \o evolution.value \o " branch.",
           ingredients |->
              \* (1.5 + spiceLevel * 0.1).toFixed(2) and (1 + spiceLevel * 0.05).toFixed(2)
              <<baseSet[1] \o " - " \o Fixed2(150 + 10 * spiceLevel) \o " oz",
                baseSet[2] \o " - " \o Fixed2(100 + 5 * spiceLevel) \o " oz",
                "ancestral spice tincture - " \o NatStr(spiceLevel) \o " drops",
                "heritage citrus oil mist",
                "lineage bitters - " \o NatStr((ratioSeed % 4) + 1) \o " shakes">>,
           instructions |->
              <<"Build the dynasty layers over an engraved ice column.",
                "Stir clockwise for the elders, counter-clockwise for new heirs.",
                "Crown with heritage citrus oil and pronounce the " \o evolution.value
                  \o " title.">>,
           compatibility |-> "Spice lineage: level " \o NatStr(spiceLevel)],
        rnd |-> evolution.rnd]))))

ErrUnsupportedKey(key) == "Unsupported generator key: " \o key

\* getGeneratorByKey_(key)(context); now is the clock the chrono generator reads
RunGenerator(key, context, now) ==
    CASE key = "astro" -> generateAstrologicalElixir_(context)
      [] key = "numerology" -> generateNameNumerologyMixer_(context)
      [] key = "chrono" -> generateBirthdayChronoCocktail_(context, now)
      [] key = "oracle" -> generatePersonalizedPalateOracle_(context)
      [] key = "dynasty" -> generateDynasticDrinkDynasty_(context)

\* getGeneratorByKey_ returns a generator exactly for these keys and throws otherwise
HasGenerator(key) == key \in {"astro", "numerology", "chrono", "oracle", "dynasty"}

-----------------------------------------------------------------------------
(* Persistence: the two sheets of the storage spreadsheet. A sheet is
   [exists, header, rows]. header is the header row when row 1 of the sheet
   holds one and << >> when it does not; rows holds the other rows that have
   content, top to bottom, one record per row with a field per column. So on
   a sheet with a header row sheet row n is rows[n - 1], and on a sheet
   without one sheet row n is rows[n]. *)

PrimaryName == "GeneratedDrinks"
VotesName == "VoteAudit"

PrimaryHeaders ==
    <<"Drink ID", "Timestamp (ISO)", "Generator Key", "Generator Label", "First Name",
      "Last Name", "Birth Month", "Birth Day", "Birth Year", "Reason", "Drink Name",
      "Ingredients", "Instructions", "Compatibility or Twist", "Vote Count">>

VotesHeaders == <<"Timestamp (ISO)", "Drink ID", "Previous Votes", "New Votes", "Action">>

NoSheet == [exists |-> FALSE, header |-> <<>>, rows |-> <<>>]

\* spreadsheet.insertSheet(name): a sheet no row of which has content
insertSheet == [exists |-> TRUE, header |-> <<>>, rows |-> <<>>]

\* sheet.getRange(1, 1, 1, headers.length).setValues([headers]): every column
\* of row 1 is written, over the row an appendRow may have put there
setValues(sheet, headers) ==
    [sheet EXCEPT !.header = headers,
                  !.rows = IF sheet.header = <<>> /\ @ # <<>> THEN Tail(@) ELSE @]

\* insertSheet, then setValues of the header row
NewSheet(headers) == setValues(insertSheet, headers)

\* the number of sheet rows above rows[1]
HeaderRows(sheet) == IF sheet.header # <<>> THEN 1 ELSE 0

\* sheet.appendRow(row): the row goes under the last row that has content
appendRow(sheet, row) == [sheet EXCEPT !.rows = Append(@, row)]

\* sheet.getLastRow()
getLastRow(sheet) == HeaderRows(sheet) + Len(sheet.rows)

\* sheet.getRange(2, 1, numRows, 15).getValues(): the sheet rows 2 to
\* numRows + 1 (no row is ever removed, so each of them is still there)
getValues(sheet, numRows) ==
    [i \in 1..numRows |-> sheet.rows[i + 1 - HeaderRows(sheet)]]

\* PropertiesService and SpreadsheetApp as a run of a handler finds them, in
\* one record. kind is "throws" when getScriptProperties() throws at every
\* call, "keyThrows" when only the read of OPENAI_API_KEY throws, and "store"
\* when the store answers and getProperty('OPENAI_API_KEY') gives value (null
\* or a string). spreadsheet is "active" when the script is bound to the
\* storage spreadsheet, "stored" when it is not and the stored identifier
\* opens it, "none" when it is not and no stored identifier opens one.

ErrPropertyStore == "Exception: script properties are unavailable"

\* SpreadsheetApp.create: a spreadsheet that holds neither sheet
NewSpreadsheet == [primary |-> NoSheet, votes |-> NoSheet]

\* getOrCreateStorageSpreadsheet_: each of its branches goes through
\* PropertiesService.getScriptProperties() outside any try
\* (persistStorageSpreadsheetId_ for the active spreadsheet, getProperty of
\* the stored identifier otherwise). Returns [spreadsheet, properties]: the
\* storage spreadsheet (a store is [primary, votes]) and the platform as the
\* call leaves it, the identifier of a spreadsheet it created being stored.
getOrCreateStorageSpreadsheet_(store, properties) ==
    IF properties.kind = "throws" THEN Throw(ErrPropertyStore)
    ELSE IF properties.spreadsheet \in {"active", "stored"}
    THEN Return([spreadsheet |-> store, properties |-> properties])
    ELSE Return([spreadsheet |-> NewSpreadsheet,
                 properties |-> [properties EXCEPT !.spreadsheet = "stored"]])

\* spreadsheet.insertSheet(name) when a sheet of that name is there
ErrSheetExists(name) ==
    "Exception: A sheet with the name \"" \o name
        \o "\" already exists. Please enter another name."

ErrPrimaryMissing == "Primary sheet is missing."
ErrVotesMissing == "Vote audit sheet is missing."

\* getPrimarySheet_: the sheet, or a throw
getPrimarySheet_(store, properties) ==
    With(getOrCreateStorageSpreadsheet_(store, properties), LAMBDA storage :
        IF ~storage.ok THEN storage
        ELSE IF ~storage.value.spreadsheet.primary.exists THEN Throw(ErrPrimaryMissing)
        ELSE Return(storage.value.spreadsheet.primary))

\* getVotesSheet_
getVotesSheet_(store, properties) ==
    With(getOrCreateStorageSpreadsheet_(store, properties), LAMBDA storage :
        IF ~storage.ok THEN storage
        ELSE IF ~storage.value.spreadsheet.votes.exists THEN Throw(ErrVotesMissing)
        ELSE Return(storage.value.spreadsheet.votes))

-----------------------------------------------------------------------------
(* registerVote, in the calls it makes on the primary sheet and on VoteAudit *)

ErrVoteIdRequired == "A valid drink identifier is required to register a vote."
ErrVoteNotFound == "The requested drink could not be located."

\* sheet.getRange(2, 1, 0, 15): the platform refuses a range of no rows
ErrEmptyRange == "The number of rows in the range must be at least 1."

\* the for loop over values: the first of them whose column 1 === drinkId,
\* counted from 1, and 0 when there is none (=== on a cell holding a string
\* needs a string)
FindRow(values, drinkId) ==
    LET hits == {i \in 1..Len(values) : drinkId.k = "string" /\ drinkId.v = values[i].drinkId}
    IN IF hits = {} THEN 0 ELSE CHOOSE i \in hits : \A j \in hits : i <= j

\* lines 316-321: the argument test, getPrimarySheet_, and the range from
\* sheet row 2 down, of Math.max(getLastRow() - 1, 0) rows. Returns the
\* number of rows of the range, or throws.
VoteRange(store, properties, drinkId) ==
    IF ~Truthy(drinkId) THEN Throw(ErrVoteIdRequired)
    ELSE With(getPrimarySheet_(store, properties), LAMBDA sheet :
        IF ~sheet.ok THEN sheet
        ELSE IF getLastRow(sheet.value) - 1 <= 0 THEN Throw(ErrEmptyRange)
        ELSE Return(getLastRow(sheet.value) - 1))

\* lines 322-336: getValues and the search. Returns the locals
\* [updatedRowIndex, currentVotes] (updatedRowIndex is a sheet row: i + 2 for
\* the i of the loop, which counts from 0), or throws.
VoteValues(store, drinkId, numRows) ==
    With(getValues(store.primary, numRows), LAMBDA values :
    With(FindRow(values, drinkId), LAMBDA found :
        IF found = 0 THEN Throw(ErrVoteNotFound)
        ELSE Return([updatedRowIndex |-> found + 1,
                     currentVotes |->
                        Number(Or(Num(values[found].voteCount), Num(0))).v \div 10])))

\* lines 316-336 with nothing interleaved
VoteRead(store, properties, drinkId) ==
    With(VoteRange(store, properties, drinkId), LAMBDA range :
        IF ~range.ok THEN range ELSE VoteValues(store, drinkId, range.value))

\* line 338 without the increment
SameVotes(currentVotes) == currentVotes

\* line 338: currentVotes + 1
NewVotes(currentVotes) == currentVotes + 1

\* line 339 as an increment of whatever the cell holds at the time of the write
VoteWriteFresh(store, updatedRowIndex, newVotes) ==
    [store EXCEPT
        !.primary.rows[updatedRowIndex - HeaderRows(store.primary)].voteCount = @ + 1]

\* line 339: sheet.getRange(updatedRowIndex, 15).setValue(newVotes)
VoteWrite(store, updatedRowIndex, newVotes) ==
    [store EXCEPT
        !.primary.rows[updatedRowIndex - HeaderRows(store.primary)].voteCount = newVotes]

\* an audit row that records the new count as the previous one too
AuditRowOfNew(now, drinkId, currentVotes, newVotes) ==
    [timestamp |-> now, drinkId |-> drinkId, previousVotes |-> newVotes,
     newVotes |-> newVotes, action |-> "increment"]

\* the row of lines 343-349
AuditRow(now, drinkId, currentVotes, newVotes) ==
    [timestamp |-> now, drinkId |-> drinkId, previousVotes |-> currentVotes,
     newVotes |-> newVotes, action |-> "increment"]

\* lines 342-349: getVotesSheet_ and the append to VoteAudit. Returns the
\* store with the row appended, or throws with nothing appended.
VoteAudit(store, properties, now, drinkId, currentVotes, newVotes) ==
    With(getVotesSheet_(store, properties), LAMBDA sheet :
        IF ~sheet.ok THEN sheet
        ELSE Return([store EXCEPT !.votes =
                        appendRow(@, AuditRow(now, drinkId, currentVotes, newVotes))]))

ErrAppendFailed == "Exception: Service Spreadsheets failed while appending the row"

\* a failure of the audit write that takes the count back to the one read
VoteAuditUndone(store, updatedRowIndex, currentVotes, error) ==
    [store |-> VoteWrite(store, updatedRowIndex, currentVotes), result |-> error]

\* lines 339-349 when getVotesSheet_ or appendRow throws: the error leaves
\* registerVote and the cell written at line 339 stays as it is
VoteAuditFailed(store, updatedRowIndex, currentVotes, error) ==
    [store |-> store, result |-> error]

-----------------------------------------------------------------------------
(* persistBlueprint_ and getStoredDrinks *)

\* an identifier source that returns the same identifier on every call
getUuidRepeated(handedOut) == "drink-1"

\* Utilities.getUuid(): an identifier no earlier call returned
getUuid(handedOut) == "drink-" \o NatStr(Cardinality(handedOut) + 1)


\* a cell that keeps every text as the text written
EnteredAsText(text) == Str(text)

\* The value a cell holds once appendRow has written a text into it. The
\* spreadsheet reads what is written the way it reads what is typed: a text
\* of decimal digits becomes that number and the words true and false, in
\* any case, become the boolean. The other texts of the model stay text.
Entered(text) ==
    IF text # "" /\ (\A j \in 1..Len(text) : IsDigit(SubSeq(text, j, j)))
    THEN Number(Str(text))
    ELSE IF Len(text) \in {4, 5} /\ toLowerCase(text) \in {"true", "false"}
    THEN Bool(toLowerCase(text) = "true")
    ELSE Str(text)

\* persistBlueprint_, lines 456-476: the row that appendRow writes. The two
\* lists go into one cell each, joined (the other texts written are, in every
\* run of the model, texts the sheet keeps as they are).
PersistRow(request, blueprint, drinkId, now) ==
    [drinkId |-> drinkId,
     timestamp |-> now,
     generatorKey |-> request.generatorKey,
     generatorLabel |-> GENERATOR_LABELS[request.generatorKey],
     firstName |-> request.firstName,
     lastName |-> request.lastName,
     birthMonth |-> request.birthMonth,
     birthDay |-> request.birthDay,
     birthYear |-> request.birthYear,
     reason |-> blueprint.reason,
     drinkName |-> blueprint.drinkName,
     ingredients |-> Entered(JoinStrings(blueprint.ingredients, " " \o Bullet \o " ")),
     instructions |-> Entered(JoinStrings(blueprint.instructions, " " \o Bullet \o " ")),
     compatibility |-> blueprint.compatibility,
     voteCount |-> 0]

\* persistBlueprint_, lines 480-489: the record returned
Persisted(request, blueprint, drinkId) ==
    [drinkId |-> drinkId,
     drinkName |-> blueprint.drinkName,
     reason |-> blueprint.reason,
     ingredients |-> blueprint.ingredients,
     instructions |-> blueprint.instructions,
     compatibility |-> blueprint.compatibility,
     generatorLabel |-> GENERATOR_LABELS[request.generatorKey],
     voteCount |-> 0]

\* cell.split(bullet): the pieces of s between its bullets, in order
split(s) ==
    LET cuts == {i \in 1..Len(s) : SubSeq(s, i, i) = Bullet}
        \* the j-th cut in increasing order; 0 before the first, Len + 1 after the last
        cut(j) == IF j = 0 THEN 0
                  ELSE IF j > Cardinality(cuts) THEN Len(s) + 1
                  ELSE CHOOSE i \in cuts : Cardinality({c \in cuts : c <= i}) = j
    IN [j \in 1..(Cardinality(cuts) + 1) |-> SubSeq(s, cut(j - 1) + 1, cut(j) - 1)]


\* row[11] ? row[11].split(bullet).map(trim) : [] for a cell that holds text
CellList(cell) ==
    IF ~Truthy(cell) THEN <<>>
    ELSE With(split(cell.v), LAMBDA pieces : [j \in 1..Len(pieces) |-> trim(pieces[j])])

\* row[n].split(...) is reached only for a truthy cell, and of the truthy
\* values only a string has the method
Splits(cell) == ~Truthy(cell) \/ cell.k = "string"

\* the TypeError of a call of split on a number or a boolean; n is the index
\* of the column as the code writes it
ErrNoSplit(n) == "row[" \o NatStr(n) \o "].split is not a function"

\* getStoredDrinks, lines 274-275: getPrimarySheet_ and getLastRow. Returns
\* lastRow, or throws.
StoredRange(store, properties) ==
    With(getPrimarySheet_(store, properties), LAMBDA sheet :
        IF ~sheet.ok THEN sheet ELSE Return(getLastRow(sheet.value)))


\* getStoredDrinks, lines 281-303: getValues of the sheet rows 2 to lastRow
\* and the record made of each, in order; the first cell that is truthy and no
\* string ends the call with a TypeError
StoredValues(store, lastRow) ==
    With(getValues(store.primary, lastRow - 1), LAMBDA data :
    With({i \in DOMAIN data : ~Splits(data[i].ingredients) \/ ~Splits(data[i].instructions)},
         LAMBDA failing :
        IF failing # {}
        THEN With(data[CHOOSE i \in failing : \A j \in failing : i <= j], LAMBDA row :
                 Throw(ErrNoSplit(IF ~Splits(row.ingredients) THEN 11 ELSE 12)))
        ELSE Return([i \in 1..Len(data) |->
            LET row == data[i]
            IN [drinkId |-> row.drinkId,
                timestamp |-> row.timestamp,
                generatorKey |-> row.generatorKey,
                generatorLabel |-> row.generatorLabel,
                firstName |-> row.firstName,
                lastName |-> row.lastName,
                birthMonth |-> row.birthMonth,
                birthDay |-> row.birthDay,
                birthYear |-> row.birthYear,
                reason |-> row.reason,
                drinkName |-> row.drinkName,
                ingredients |-> CellList(row.ingredients),
                instructions |-> CellList(row.instructions),
                compatibility |-> row.compatibility,
                voteCount |-> Number(Or(Num(row.voteCount), Num(0))).v \div 10]])))

-----------------------------------------------------------------------------
(* The remote override: script properties, the HTTP exchange, JSON.parse *)

ContentFull == "{\"drinkName\":\" Neon Fizz \",\"reason\":\"Bright and bold.\",\"ingredients\":[\" gin - 2 oz \",\"tonic - 4 oz\"],\"instructions\":[\"Build over ice.\"],\"compatibility\":\"Crisp company.\"}"
ContentPartial == "{\"drinkName\":\"Neon Fizz\"}"
ContentEmptyObject == "{}"
ContentNull == "null"
ContentProse == "Here is your drink: a Neon Fizz."
BodyFull == "{\"choices\":[{\"message\":{\"content\":\"{\\\"drinkName\\\":\\\" Neon Fizz \\\",\\\"reason\\\":\\\"Bright and bold.\\\",\\\"ingredients\\\":[\\\" gin - 2 oz \\\",\\\"tonic - 4 oz\\\"],\\\"instructions\\\":[\\\"Build over ice.\\\"],\\\"compatibility\\\":\\\"Crisp company.\\\"}\"}}]}"
BodyPartial == "{\"choices\":[{\"message\":{\"content\":\"{\\\"drinkName\\\":\\\"Neon Fizz\\\"}\"}}]}"
BodyEmptyObject == "{\"choices\":[{\"message\":{\"content\":\"{}\"}}]}"
BodyNullContent == "{\"choices\":[{\"message\":{\"content\":\"null\"}}]}"
BodyProse == "{\"choices\":[{\"message\":{\"content\":\"Here is your drink: a Neon Fizz.\"}}]}"
BodyNumberContent == "{\"choices\":[{\"message\":{\"content\":7}}]}"
BodyObjectContent == "{\"choices\":[{\"message\":{\"content\":{\"drinkName\":\"Neon Fizz\"}}}]}"
BodyBlankContent == "{\"choices\":[{\"message\":{\"content\":\"\"}}]}"
BodyNoMessage == "{\"choices\":[{}]}"
BodyNullChoice == "{\"choices\":[null]}"
BodyNoChoiceEntries == "{\"choices\":[]}"
BodyChoicesText == "{\"choices\":\"none\"}"
BodyError == "{\"error\":{\"message\":\"Rate limit reached\"}}"
BodyNull == "null"
BodyHtml == "<html>Bad Gateway</html>"
BodyBlank == ""

\* "7": what String() makes of the number 7 before JSON.parse reads it
ContentSeven == "7"

\* JSON.parse on the documents above: <<text, value>>; any other text used
\* below is not JSON
JsonDocuments ==
    << <<ContentFull, Obj([drinkName |-> Str(" Neon Fizz "), reason |-> Str("Bright and bold."),
            ingredients |-> Arr(<<Str(" gin - 2 oz "), Str("tonic - 4 oz")>>),
            instructions |-> Arr(<<Str("Build over ice.")>>),
            compatibility |-> Str("Crisp company.")])>>,
       <<ContentPartial, Obj([drinkName |-> Str("Neon Fizz")])>>,
       <<ContentEmptyObject, Obj(EmptyFields)>>,
       <<ContentNull, Null>>,
       <<BodyFull, Obj([choices |-> Arr(<<Obj([message |-> Obj([content |-> Str(ContentFull)])])>>)])>>,
       <<BodyPartial,
            Obj([choices |-> Arr(<<Obj([message |-> Obj([content |-> Str(ContentPartial)])])>>)])>>,
       <<BodyEmptyObject,
            Obj([choices |-> Arr(<<Obj([message |-> Obj([content |-> Str("{}")])])>>)])>>,
       <<BodyNullContent,
            Obj([choices |-> Arr(<<Obj([message |-> Obj([content |-> Str("null")])])>>)])>>,
       <<BodyProse, Obj([choices |-> Arr(<<Obj([message |-> Obj([content |-> Str(ContentProse)])])>>)])>>,
       <<BodyNumberContent,
            Obj([choices |-> Arr(<<Obj([message |-> Obj([content |-> Num(7)])])>>)])>>,
       <<BodyObjectContent,
            Obj([choices |-> Arr(<<Obj([message |-> Obj([content |-> Obj([drinkName |-> Str("Neon Fizz")])])])>>)])>>,
       <<BodyBlankContent,
            Obj([choices |-> Arr(<<Obj([message |-> Obj([content |-> Str("")])])>>)])>>,
       <<BodyNoMessage, Obj([choices |-> Arr(<<Obj(EmptyFields)>>)])>>,
       <<BodyNullChoice, Obj([choices |-> Arr(<<Null>>)])>>,
       <<BodyNoChoiceEntries, Obj([choices |-> Arr(<<>>)])>>,
       <<BodyChoicesText, Obj([choices |-> Str("none")])>>,
       <<BodyError, Obj([error |-> Obj([message |-> Str("Rate limit reached")])])>>,
       <<ContentSeven, Num(7)>> >>


\* JSON.parse(text): the value, or a SyntaxError
JSONparse(text) ==
    LET hits == {i \in 1..Len(JsonDocuments) : JsonDocuments[i][1] = text}
    IN IF hits = {} THEN Throw("SyntaxError")
       ELSE Return(JsonDocuments[CHOOSE i \in hits : TRUE][2])

\* x.length
Length(x) ==
    CASE x.k = "array" -> Num(Len(x.v))
      [] x.k = "string" -> Num(Len(x.v))
      [] OTHER -> Get(x, "length")

\* x[0]
First(x) ==
    CASE x.k = "array" -> IF Len(x.v) > 0 THEN x.v[1] ELSE Undefined
      [] x.k = "string" -> IF Len(x.v) > 0 THEN Str(SubSeq(x.v, 1, 1)) ELSE Undefined
      [] OTHER -> Get(x, "0")

\* a property read on null or undefined is a TypeError
IsNullish(x) == x.k \in {"undefined", "null"}
ErrTypeError == "TypeError: Cannot read properties of null or undefined"

\* getOpenAiApiKey_ without the trim of line 125
getOpenAiApiKeyUntrimmed_(properties) ==
    IF properties.kind \in {"throws", "keyThrows"} THEN Null
    ELSE LET value == String(Or(properties.value, Str("")))
         IN IF value = "" THEN Null ELSE Str(value)

getOpenAiApiKey_(properties) ==
    IF properties.kind \in {"throws", "keyThrows"} THEN Null
    ELSE LET value == trim(String(Or(properties.value, Str(""))))
         IN IF value = "" THEN Null ELSE Str(value)

ErrFetch == "Exception: request failed"
ErrStatus(status, bodyText) ==
    "OpenAI API returned status " \o NatStr(status) \o ": " \o bodyText
ErrBodyNotJson == "Failed to parse OpenAI response JSON: SyntaxError"
ErrNoChoices == "OpenAI response missing choices array."
ErrNoContent == "OpenAI response missing message content."
ErrContentNotJson == "OpenAI message content is not valid JSON: SyntaxError"

\* lines 186-200: the message content of the first choice of the body
MessageContent(bodyText) ==
    LET body == JSONparse(bodyText)
    IN IF ~body.ok THEN Throw(ErrBodyNotJson)
       ELSE LET responseObject == body.value
            IN IF IsNullish(responseObject) THEN Throw(ErrTypeError)
               ELSE LET choices == Get(responseObject, "choices")
                    IN IF ~Truthy(choices) \/ ~Truthy(Length(choices))
                       THEN Throw(ErrNoChoices)
                       ELSE IF IsNullish(First(choices)) THEN Throw(ErrTypeError)
                       ELSE LET message == Get(First(choices), "message")
                                content == And(message, Get(message, "content"))
                            IN IF ~Truthy(content) THEN Throw(ErrNoContent)
                               ELSE Return(content)

BlueprintKeys == {"drinkName", "reason", "ingredients", "instructions", "compatibility"}

\* lines 186-209 with a content that lacks a blueprint key treated as a failure
ReadCompletionStrict(bodyText, context) ==
    LET content == MessageContent(bodyText)
    IN IF ~content.ok THEN content
       ELSE LET parsed == JSONparse(String(content.value))
            IN IF ~parsed.ok THEN Throw(ErrContentNotJson)
               ELSE IF \E key \in BlueprintKeys : Get(parsed.value, key) = Undefined
               THEN Throw("OpenAI blueprint is missing keys.")
               ELSE Return(normalizeOpenAiBlueprint_(parsed.value, context))

\* lines 186-209: JSON.parse of the content (which coerces it to a string)
\* and the normalization of what it yields
ReadCompletion(bodyText, context) ==
    LET content == MessageContent(bodyText)
    IN IF ~content.ok THEN content
       ELSE LET parsed == JSONparse(String(content.value))
            IN IF ~parsed.ok THEN Throw(ErrContentNotJson)
               ELSE Return(normalizeOpenAiBlueprint_(parsed.value, context))

\* the remote call with the status test of line 182 left out
generateDrinkWithOpenAIAnyStatus_(request, context, apiKey, response) ==
    IF response.kind = "throws" THEN Throw(ErrFetch)
    ELSE ReadCompletion(response.body, context)

\* generateDrinkWithOpenAI_ from the return of UrlFetchApp.fetch on: response
\* is what the fetch did, [kind |-> "throws"] or [kind |-> "http", status, body]
generateDrinkWithOpenAI_(request, context, apiKey, response) ==
    IF response.kind = "throws" THEN Throw(ErrFetch)
    ELSE IF response.status < 200 \/ response.status >= 300
    THEN Throw(ErrStatus(response.status, response.body))
    ELSE ReadCompletion(response.body, context)

-----------------------------------------------------------------------------
(* generateDrink *)

NotCalled == [called |-> FALSE]
Called(result) == [called |-> TRUE, result |-> result]

\* lines 90-101: blueprint starts as null; the try assigns the remote
\* blueprint, the catch logs and leaves it null
NoBlueprint == [some |-> FALSE]
Caught(remote) ==
    IF remote.called /\ remote.result.ok
    THEN [some |-> TRUE, value |-> remote.result.value]
    ELSE NoBlueprint

\* lines 106-109 taken whether or not a blueprint is there
AlwaysGenerate(blueprint, key, context, now) ==
    LET generated == RunGenerator(key, context, now)
    IN [blueprint |-> generated.blueprint, draws |-> generated.rnd.draws]

\* lines 106-109: if (!blueprint) blueprint = generator(context); draws counts
\* the calls of context.random() the generator made
Fallback(blueprint, key, context, now) ==
    IF blueprint.some THEN [blueprint |-> blueprint.value, draws |-> 0]
    ELSE LET generated == RunGenerator(key, context, now)
         IN [blueprint |-> generated.blueprint, draws |-> generated.rnd.draws]


StockPayload ==
    Obj([generatorKey |-> Str("oracle"), birthMonth |-> Num(1), birthDay |-> Num(1),
         birthYear |-> Num(2000), firstName |-> Str("Guest"), lastName |-> Str("Guest")])

\* lines 81-87 with the validation put off: a payload that fails it is
\* replaced by a stock request
LenientRequest(payload, year) ==
    With(sanitizeGenerationRequest_(payload, year), LAMBDA sanitized :
        IF sanitized.ok /\ HasGenerator(sanitized.value.generatorKey) THEN sanitized
        ELSE sanitizeGenerationRequest_(StockPayload, year))

\* lines 81-87: the request sanitizeGenerationRequest_ returns, once
\* getGeneratorByKey_ has found its generator; the throw of either otherwise
SanitizedRequest(payload, year) ==
    With(sanitizeGenerationRequest_(payload, year), LAMBDA sanitized :
        IF ~sanitized.ok THEN sanitized
        ELSE IF ~HasGenerator(sanitized.value.generatorKey)
        THEN Throw(ErrUnsupportedKey(sanitized.value.generatorKey))
        ELSE sanitized)

-----------------------------------------------------------------------------
(* Values the specifications below leave alone *)

NoRun == [op |-> "none"]
Idle == [done |-> FALSE]
Done(r) == [done |-> TRUE, r |-> r]
\* noon of 2026-10-30 in a zone whose offset is the one of the birth date
Epoch == Clock(2026, 10, 30, 720, 0)

StoreIdle ==
    /\ primarySheet = NoSheet
    /\ votesSheet = NoSheet
    /\ uuids = {}
    /\ last = NoRun
    /\ procs = <<>>
    /\ caches = <<>>

\* an object literal holding the properties of f that are not marked absent
Absent == [k |-> "absent"]
MkObj(f) == Obj([key \in {x \in DOMAIN f : f[x] # Absent} |-> f[key]])

-----------------------------------------------------------------------------
(* Requests. No handler takes a lock, so the requests the web app serves at
   the same time interleave at the calls they make on the spreadsheet. A
   request is [op, pc, input, properties, locals, trace]: the handler, the
   call it makes next, its argument, the platform it runs on, the local
   variables it holds, and once it has ended the trace it leaves behind. One
   step is one call on the platform (the spreadsheet, the script properties,
   the completion API, the identifier service), with the statements that lead
   up to it. *)

NoRequest == [pc |-> "idle"]

Invocation(op, input, properties) ==
    [op |-> op, pc |-> "storage", input |-> input, properties |-> properties,
     locals |-> << >>, trace |-> NoRun]

GenerateRequest(payload, properties, response) ==
    Invocation("generateDrink", [payload |-> payload, response |-> response], properties)

\* audit is what the appendRow of line 343 does: "appends" or "throws"
VoteRequest(drinkId, properties, audit) ==
    Invocation("registerVote", [drinkId |-> drinkId, audit |-> audit], properties)


EnsurePcs ==
    {"storage", "insertPrimary", "insertVotes", "headPrimary", "headVotes", "votesSheet"}

\* the local variables of generateDrink and persistBlueprint_: the sanitized
\* request, the key read, what the completion API call came to, the blueprint
\* (null until one is there), the PRNG draws made, the identifier taken
GenerateLocals(request, openAiKey, blueprint) ==
    [request |-> request, openAiKey |-> openAiKey, remote |-> NotCalled,
     blueprint |-> blueprint, draws |-> 0, drinkId |-> ""]

\* persistBlueprint_(request, blueprint) as a request of its own
PersistRequest(request, blueprint, properties) ==
    [Invocation("persistBlueprint_", [request |-> request, blueprint |-> blueprint],
                properties)
        EXCEPT !.pc = "persistSheet",
               !.locals = GenerateLocals(request, Null, [some |-> TRUE, value |-> blueprint])]

\* The trace of a request that ends with result. That of a generateDrink
\* tells its inputs, its result, whether getOpenAiApiKey_ was reached
\* (keyRead), whether the fetch was issued and what it brought back, and the
\* PRNG draws made.
TraceOf(request, result) ==
    CASE request.op = "generateDrink" ->
            IF request.pc \in EnsurePcs \cup {"generate"}
            THEN [op |-> "generateDrink", payload |-> request.input.payload,
                  properties |-> request.properties, result |-> result,
                  keyRead |-> FALSE, fetched |-> FALSE, response |-> NotCalled,
                  remote |-> NotCalled, draws |-> 0]
            ELSE [op |-> "generateDrink", payload |-> request.input.payload,
                  properties |-> request.properties, result |-> result,
                  keyRead |-> TRUE, fetched |-> request.locals.remote.called,
                  response |-> IF request.locals.remote.called
                               THEN request.input.response ELSE NotCalled,
                  remote |-> request.locals.remote, draws |-> request.locals.draws]
      [] request.op = "registerVote" ->
            [op |-> "registerVote", drinkId |-> request.input.drinkId,
             audit |-> request.input.audit, result |-> result]
      [] OTHER -> [op |-> request.op, result |-> result]

End(request, result) ==
    [request EXCEPT !.pc = "ended", !.trace = TraceOf(request, result)]

\* the first call of the handler after ensureSpreadsheetStructure_ returns
FirstCall(op) ==
    CASE op = "doGet" -> "page"
      [] op = "generateDrink" -> "generate"
      [] op = "getStoredDrinks" -> "storedRange"
      [] op = "registerVote" -> "voteRange"

\* ensureSpreadsheetStructure_ returns to its caller
Structured(request) ==
    IF request.op = "ensureSpreadsheetStructure_" THEN End(request, Return(Undefined))
    ELSE [request EXCEPT !.pc = FirstCall(request.op)]

Left(store, handedOut, request) ==
    [store |-> store, uuids |-> handedOut, request |-> request]

\* lines 797-800: the storage spreadsheet and getSheetByName of the primary sheet
StorageStep(store, handedOut, request) ==
    With(getOrCreateStorageSpreadsheet_(store, request.properties), LAMBDA storage :
        IF ~storage.ok THEN Left(store, handedOut, End(request, storage))
        ELSE Left(storage.value.spreadsheet, handedOut,
                  [request EXCEPT !.properties = storage.value.properties,
                                  !.pc = IF storage.value.spreadsheet.primary.exists
                                         THEN "votesSheet" ELSE "insertPrimary"]))

\* lines 801 and 810: insertSheet, which throws when the sheet is there by now
InsertStep(store, handedOut, request) ==
    IF request.pc = "insertPrimary"
    THEN IF store.primary.exists
         THEN Left(store, handedOut, End(request, Throw(ErrSheetExists(PrimaryName))))
         ELSE Left([store EXCEPT !.primary = insertSheet], handedOut,
                   [request EXCEPT !.pc = "headPrimary"])
    ELSE IF store.votes.exists
         THEN Left(store, handedOut, End(request, Throw(ErrSheetExists(VotesName))))
         ELSE Left([store EXCEPT !.votes = insertSheet], handedOut,
                   [request EXCEPT !.pc = "headVotes"])

\* lines 802-805 and 811-814: setValues of the header row (setFrozenRows and
\* autoResizeColumns change no cell)
HeaderStep(store, handedOut, request) ==
    IF request.pc = "headPrimary"
    THEN Left([store EXCEPT !.primary = setValues(@, PrimaryHeaders)], handedOut,
              [request EXCEPT !.pc = "votesSheet"])
    ELSE Left([store EXCEPT !.votes = setValues(@, VotesHeaders)], handedOut,
              Structured(request))


\* the audit sheet is made whether or not it is there
VotesSheetUnguarded(store, handedOut, request) ==
    Left(store, handedOut, [request EXCEPT !.pc = "insertVotes"])

\* lines 808-809: getSheetByName of the audit sheet
VotesSheetStep(store, handedOut, request) ==
    Left(store, handedOut,
         IF store.votes.exists THEN Structured(request)
         ELSE [request EXCEPT !.pc = "insertVotes"])

\* doGet, lines 64-67: the page is built from the Index template
PageStep(store, handedOut, request) ==
    Left(store, handedOut, End(request, Return("index")))


\* generateDrink, lines 81-91: the payload is sanitized, the context built,
\* the generator resolved, and getOpenAiApiKey_ reads the script property
GenerateStep(store, handedOut, request, now) ==
    With(SanitizedRequest(request.input.payload, now.y), LAMBDA valid :
        Left(store, handedOut,
             IF ~valid.ok THEN End(request, valid)
             ELSE With(getOpenAiApiKey_(request.properties), LAMBDA openAiKey :
                      [request EXCEPT
                          !.pc = IF Truthy(openAiKey) THEN "fetch" ELSE "persistSheet",
                          !.locals = GenerateLocals(valid.value, openAiKey, NoBlueprint)])))

\* generateDrink, lines 92-101: generateDrinkWithOpenAI_ sends the request to
\* the completion API; what it throws is caught and logged
FetchStep(store, handedOut, request) ==
    With(request.locals, LAMBDA locals :
    With(Called(generateDrinkWithOpenAI_(locals.request,
                                         buildGenerationContext_(locals.request),
                                         locals.openAiKey.v, request.input.response)),
         LAMBDA remote :
        Left(store, handedOut,
             [request EXCEPT !.pc = "persistSheet",
                             !.locals.remote = remote,
                             !.locals.blueprint = Caught(remote)])))

\* generateDrink, lines 106-109, and persistBlueprint_, line 454: the
\* generator runs when no blueprint is there, then getPrimarySheet_ takes the
\* storage spreadsheet and the sheet, or throws
PersistSheetStep(store, handedOut, request, now) ==
    With(request.locals, LAMBDA locals :
    With(Fallback(locals.blueprint, locals.request.generatorKey,
                  buildGenerationContext_(locals.request), now), LAMBDA chosen :
    With([request EXCEPT !.locals.blueprint = [some |-> TRUE, value |-> chosen.blueprint],
                         !.locals.draws = chosen.draws], LAMBDA held :
    With(getOrCreateStorageSpreadsheet_(store, request.properties), LAMBDA storage :
        IF ~storage.ok THEN Left(store, handedOut, End(held, storage))
        ELSE With([held EXCEPT !.properties = storage.value.properties], LAMBDA bound :
                 Left(storage.value.spreadsheet, handedOut,
                      IF ~storage.value.spreadsheet.primary.exists
                      THEN End(bound, Throw(ErrPrimaryMissing))
                      ELSE [bound EXCEPT !.pc = "persistUuid"]))))))

\* persistBlueprint_, line 455: Utilities.getUuid()
PersistUuidStep(store, handedOut, request) ==
    With(getUuid(handedOut), LAMBDA drinkId :
        Left(store, handedOut \cup {drinkId},
             [request EXCEPT !.pc = "persistAppend", !.locals.drinkId = drinkId]))

\* persistBlueprint_, lines 456-489: appendRow, and the record returned
PersistAppendStep(store, handedOut, request, now) ==
    With(request.locals, LAMBDA locals :
        Left([store EXCEPT !.primary =
                 appendRow(@, PersistRow(locals.request, locals.blueprint.value,
                                         locals.drinkId, now))],
             handedOut,
             End(request, Return(Persisted(locals.request, locals.blueprint.value,
                                           locals.drinkId)))))

\* getStoredDrinks, lines 274-279
StoredRangeStep(store, handedOut, request) ==
    With(StoredRange(store, request.properties), LAMBDA range :
        Left(store, handedOut,
             IF ~range.ok THEN End(request, range)
             ELSE IF range.value < 2 THEN End(request, Return(<<>>))
             ELSE [request EXCEPT !.pc = "storedValues",
                                  !.locals = [lastRow |-> range.value]]))

\* getStoredDrinks, lines 281-303
StoredValuesStep(store, handedOut, request) ==
    Left(store, handedOut, End(request, StoredValues(store, request.locals.lastRow)))

\* registerVote, lines 316-321
VoteRangeStep(store, handedOut, request) ==
    With(VoteRange(store, request.properties, request.input.drinkId), LAMBDA range :
        Left(store, handedOut,
             IF ~range.ok THEN End(request, range)
             ELSE [request EXCEPT !.pc = "voteValues",
                                  !.locals = [numRows |-> range.value]]))

\* registerVote, lines 322-336
VoteValuesStep(store, handedOut, request) ==
    With(VoteValues(store, request.input.drinkId, request.locals.numRows), LAMBDA read :
        Left(store, handedOut,
             IF ~read.ok THEN End(request, read)
             ELSE [request EXCEPT !.pc = "voteSet", !.locals = read.value]))

\* registerVote, lines 338-340
VoteSetStep(store, handedOut, request) ==
    With(NewVotes(request.locals.currentVotes), LAMBDA newVotes :
        Left(VoteWrite(store, request.locals.updatedRowIndex, newVotes), handedOut,
             [request EXCEPT !.pc = "voteAudit",
                             !.locals = [updatedRowIndex |-> @.updatedRowIndex,
                                         currentVotes |-> @.currentVotes,
                                         newVotes |-> newVotes]]))

\* registerVote, lines 342-352
VoteAuditStep(store, handedOut, request, now) ==
    With(request.locals, LAMBDA locals :
    With(VoteAudit(store, request.properties, now, request.input.drinkId.v,
                   locals.currentVotes, locals.newVotes), LAMBDA audited :
        IF ~audited.ok \/ request.input.audit = "throws"
        THEN With(VoteAuditFailed(store, locals.updatedRowIndex, locals.currentVotes,
                                  IF ~audited.ok THEN audited
                                  ELSE Throw(ErrAppendFailed)), LAMBDA failed :
                 Left(failed.store, handedOut, End(request, failed.result)))
        ELSE Left(audited.value, handedOut,
                  End(request, Return([drinkId |-> request.input.drinkId.v,
                                       voteCount |-> locals.newVotes])))))

\* the next call of a request inside ensureSpreadsheetStructure_
EnsureStep(store, handedOut, request) ==
    CASE request.pc = "storage" -> StorageStep(store, handedOut, request)
      [] request.pc \in {"insertPrimary", "insertVotes"} ->
            InsertStep(store, handedOut, request)
      [] request.pc \in {"headPrimary", "headVotes"} ->
            HeaderStep(store, handedOut, request)
      [] request.pc = "votesSheet" -> VotesSheetStep(store, handedOut, request)



\* ensureSpreadsheetStructure_ from the call the request is at to its return
\* or its throw, with nothing interleaved
RECURSIVE EnsureAlone(_, _, _)
EnsureAlone(store, handedOut, request) ==
    IF request.pc \notin EnsurePcs THEN Left(store, handedOut, request)
    ELSE With(EnsureStep(store, handedOut, request), LAMBDA next :
             EnsureAlone(next.store, next.uuids, next.request))

\* the call Call after the calls that left run behind, unless the request ended
Then(run, Call(_, _, _)) ==
    With(run, LAMBDA left :
        IF left.request.pc = "ended" THEN left
        ELSE Call(left.store, left.uuids, left.request))


\* the call Call, when the calls that left run behind brought the request to pc
ThenAt(run, pc, Call(_, _, _)) ==
    With(run, LAMBDA left :
        IF left.request.pc # pc THEN left
        ELSE Call(left.store, left.uuids, left.request))

\* the calls of persistBlueprint_ one after the other, from line 454 on
PersistAlone(run, now) ==
    ThenAt(ThenAt(ThenAt(run, "persistSheet",
                         LAMBDA s, h, r : PersistSheetStep(s, h, r, now)),
                  "persistUuid", PersistUuidStep),
           "persistAppend", LAMBDA s, h, r : PersistAppendStep(s, h, r, now))

\* the calls of the handler after ensureSpreadsheetStructure_, one after the
\* other with nothing interleaved
BodyAlone(store, handedOut, request, now) ==
    CASE request.pc = "ended" -> Left(store, handedOut, request)
      [] request.pc = "page" -> PageStep(store, handedOut, request)
      [] request.pc = "generate" ->
            PersistAlone(ThenAt(GenerateStep(store, handedOut, request, now),
                                "fetch", FetchStep), now)
      [] request.pc = "storedRange" ->
            Then(StoredRangeStep(store, handedOut, request), StoredValuesStep)
      [] request.pc = "voteRange" ->
            Then(Then(Then(VoteRangeStep(store, handedOut, request), VoteValuesStep),
                      VoteSetStep),
                 LAMBDA s, h, r : VoteAuditStep(s, h, r, now))

\* a request run from its first call to its end with nothing interleaved
RunAlone(store, handedOut, request, now) ==
    With(EnsureAlone(store, handedOut, request), LAMBDA ensured :
        BodyAlone(ensured.store, ensured.uuids, ensured.request, now))

\* ensureSpreadsheetStructure_ run alone: [store, result, properties]
ensureSpreadsheetStructure_(store, properties) ==
    With(EnsureAlone(store, {}, Invocation("ensureSpreadsheetStructure_", <<>>, properties)),
         LAMBDA run :
        [store |-> run.store, result |-> run.request.trace.result,
         properties |-> run.request.properties])


\* persistBlueprint_ run alone: [store, uuids, result]
persistBlueprint_(store, handedOut, properties, request, blueprint, now) ==
    With(PersistAlone(Left(store, handedOut, PersistRequest(request, blueprint, properties)),
                      now), LAMBDA run :
        [store |-> run.store, uuids |-> run.uuids, result |-> run.request.trace.result])

\* doGet run alone: [store, result]
doGet(store, properties) ==
    With(RunAlone(store, {}, Invocation("doGet", <<>>, properties), Epoch), LAMBDA run :
        [store |-> run.store, result |-> run.request.trace.result])

\* generateDrink run alone: [store, uuids, trace]
generateDrink(store, handedOut, payload, properties, response, now) ==
    With(RunAlone(store, handedOut, GenerateRequest(payload, properties, response), now),
         LAMBDA run :
        [store |-> run.store, uuids |-> run.uuids, trace |-> run.request.trace])

\* getStoredDrinks run alone: [store, result]
getStoredDrinks(store, properties) ==
    With(RunAlone(store, {}, Invocation("getStoredDrinks", <<>>, properties), Epoch),
         LAMBDA run :
        [store |-> run.store, result |-> run.request.trace.result])

\* registerVote run alone: [store, result]
registerVote(store, drinkId, properties, now) ==
    With(RunAlone(store, {}, VoteRequest(drinkId, properties, "appends"), now),
         LAMBDA run :
        [store |-> run.store, result |-> run.request.trace.result])

-----------------------------------------------------------------------------
(* SpecNormalize: normalizeOpenAiBlueprint_ applied to one raw value *)

StringFieldValues ==
    {Absent, Null, Str(""), Str(" Neon Fizz "), Num(0), Num(42), Bool(TRUE)}

ListFieldValues ==
    {Absent, Null, Str("gin"), Arr(<<>>), Obj(EmptyFields),
     Arr(<<Str("\r gin - 2 oz" \o NBSP), Num(3), Null, Str("  "), Arr(<<Str("a"), Num(1)>>)>>)}

StepFieldValues == {Absent, Num(1), Arr(<<Str("Stir "), Str("Strain")>>)}

RawBlueprints ==
    {Null, Undefined, Num(5), Str("drink"), Bool(FALSE), Arr(<<Str("x")>>)}
    \cup {MkObj([drinkName |-> n, reason |-> r, compatibility |-> c,
                 ingredients |-> i, instructions |-> t]) :
            n \in StringFieldValues, r \in StringFieldValues,
            c \in StringFieldValues \cup {Str("  "), Bool(FALSE), NaN, Obj(EmptyFields)},
            i \in ListFieldValues, t \in StepFieldValues}

NormalizeContexts == {[firstName |-> "Ada"], [firstName |-> "Bo"]}

InitNormalize ==
    /\ StoreIdle
    /\ today = Epoch
    /\ arg \in {[fn |-> "normalizeOpenAiBlueprint_", blueprint |-> b, context |-> c] :
                  b \in RawBlueprints, c \in NormalizeContexts}
    /\ out = Idle

ApplyNormalize ==
    /\ arg.fn = "normalizeOpenAiBlueprint_"
    /\ ~out.done
    /\ out' = Done(normalizeOpenAiBlueprint_(arg.blueprint, arg.context))
    /\ UNCHANGED <<caches, primarySheet, votesSheet, uuids, today, last, procs, arg>>

NextNormalize == ApplyNormalize

SpecNormalize == InitNormalize /\ [][NextNormalize]_vars

-----------------------------------------------------------------------------
(* SpecSanitize: sanitizeGenerationRequest_ applied to one payload *)

KeyValues ==
    {Absent, Str("astro"), Str("numerology"), Str("chrono"), Str("oracle"),
     Str(" dynasty "), Str("tarot"), Str("constructor"), Str("toString")}

MonthValues ==
    {Absent, Num(0), Num(1), Num(12), Num(13), Tenths(15), Str("5"), Str("1e1"), Str("1.25")}

DayValues == {Num(0), Num(1), Num(31), Num(32), Str("x"), Str("0x1F")}

YearValues == {Num(1899), Num(1900), Num(2025), Num(2026), Num(2027), Str("19.9e2")}

FirstNameValues == {Absent, Str(""), Str("  "), Str(" Ada "), Str("\r" \o NBSP)}

LastNameValues == {Str("Lovelace"), Str(""), Num(7)}

\* literals of more digits than a double holds: some are rounded to a whole
\* number, some to a neighbour of one
LongMonthValues ==
    {Num(12), Str("5.0000000000000001"), Str("12.0000000000000001"),
     Str("12.000000000000001"), Str("0.99999999999999999")}

LongDayValues ==
    {Num(1), Str("31.00000000000000000001"), Str("31.000000000000002"),
     Str("31.9999999999999999")}

LongYearValues ==
    {Num(1990), Str("1990.0000000000000001"), Str("1899.9999999999999"),
     Str("1899.999999999999")}

SanitizePayloads ==
    {Undefined, Null, Num(0), Num(5), Str("astro"), Obj(EmptyFields)}
    \cup {MkObj([generatorKey |-> g, birthMonth |-> m, birthDay |-> d,
                 birthYear |-> y, firstName |-> f, lastName |-> l]) :
            g \in KeyValues, m \in MonthValues, d \in DayValues,
            y \in YearValues, f \in FirstNameValues, l \in LastNameValues}
    \cup {MkObj([generatorKey |-> Str("astro"), birthMonth |-> m, birthDay |-> d,
                 birthYear |-> y, firstName |-> Str(" Ada "),
                 lastName |-> Str("Lovelace")]) :
            m \in LongMonthValues, d \in LongDayValues, y \in LongYearValues}

SanitizeDates == {Clock(2025, 12, 31, 1439, 0), Epoch}

InitSanitize ==
    /\ StoreIdle
    /\ today \in SanitizeDates
    /\ arg \in {[fn |-> "sanitizeGenerationRequest_", payload |-> p] :
                  p \in SanitizePayloads}
    /\ out = Idle

ApplySanitize ==
    /\ arg.fn = "sanitizeGenerationRequest_"
    /\ ~out.done
    /\ out' = Done(sanitizeGenerationRequest_(arg.payload, today.y))
    /\ UNCHANGED <<caches, primarySheet, votesSheet, uuids, today, last, procs, arg>>

NextSanitize == ApplySanitize

SpecSanitize == InitSanitize /\ [][NextSanitize]_vars

-----------------------------------------------------------------------------
(* Inputs of the handlers *)

Payload(key, month, day, year, first, lastName) ==
    Obj([generatorKey |-> Str(key), birthMonth |-> Num(month), birthDay |-> Num(day),
         birthYear |-> Num(year), firstName |-> Str(first), lastName |-> Str(lastName)])

AdaAstro == Payload("astro", 6, 1, 1990, "Ada", "Lovelace")
BoNumerology == Payload("numerology", 12, 25, 1984, " Bo ", "Diaz")
CyChrono == Payload("chrono", 2, 29, 2000, "Cy", "Young")
DeeOracle == Payload("oracle", 9, 9, 1975, "Dee", "Ortiz")
EliDynasty == Payload("dynasty", 3, 21, 2026, "Eli", "Mac Arthur")

ValidPayloads == {AdaAstro, BoNumerology, CyChrono, DeeOracle, EliDynasty}

InvalidPayloads ==
    {Null, Payload("astro", 13, 1, 1990, "Ada", "Lovelace"),
     Payload("constructor", 6, 1, 1990, "Ada", "Lovelace")}

PropertiesThrow == [kind |-> "throws", spreadsheet |-> "active"]
KeyReadThrows == [kind |-> "keyThrows", spreadsheet |-> "active"]
Property(value) == [kind |-> "store", value |-> value, spreadsheet |-> "active"]
\* the same platform for a script that is not bound to a spreadsheet
Standalone(properties, spreadsheet) == [properties EXCEPT !.spreadsheet = spreadsheet]
NoKey == Property(Null)

KeylessProperties ==
    {PropertiesThrow, KeyReadThrows, NoKey, Property(Str("")), Property(Str("   "))}
KeyedProperties == {Property(Str(" sk-test "))}

FetchThrows == [kind |-> "throws"]
Http(status, body) == [kind |-> "http", status |-> status, body |-> body]

\* bodies whose envelope carries a message content that is valid JSON
CompletionBodies ==
    {BodyFull, BodyPartial, BodyEmptyObject, BodyNullContent, BodyNumberContent}
\* bodies that are no JSON, carry no choice, or carry no usable content
BrokenBodies ==
    {BodyHtml, BodyBlank, BodyNull, BodyError, BodyNoChoiceEntries, BodyChoicesText,
     BodyNullChoice, BodyNoMessage, BodyBlankContent, BodyProse, BodyObjectContent}

Responses ==
    {FetchThrows}
    \cup {Http(200, body) : body \in CompletionBodies \cup BrokenBodies}
    \cup {Http(status, BodyFull) : status \in {199, 299, 300, 500}}
    \cup {Http(429, BodyError)}

VoteArguments(ids) ==
    {Undefined, Null, Str(""), Num(0), Num(1), Str("Drink ID")} \cup {Str(id) : id \in ids}

-----------------------------------------------------------------------------
(* The requests in progress and the steps they take. procs is
   [requests, admitted]: requests[r] is the request that runner r serves (it
   stays there once ended, until the runner takes another), and admitted
   counts the requests taken so far, up to MaxRequests. *)

MaxDrinks == 2
MaxVotes == 2
MaxRequests == 3
MaxRunners == 2

Store == [primary |-> primarySheet, votes |-> votesSheet]

Runners == DOMAIN procs.requests

\* the runners of a specification whose requests interleave, and the one
\* runner of a specification whose requests come one after the other
SpecRunners == 1..MaxRunners
SerialRunners == {1}

Free(r) == procs.requests[r].pc \in {"idle", "ended"}

InProgress(op) == {r \in Runners : ~Free(r) /\ procs.requests[r].op = op}

\* a free runner takes one of the requests
Invoke(r, requests) ==
    /\ Free(r)
    /\ \E request \in requests :
        procs' = [procs EXCEPT !.requests[r] = request,
                               !.admitted = IF @ < MaxRequests THEN @ + 1 ELSE @]
    /\ UNCHANGED <<caches, primarySheet, votesSheet, uuids, today, last, arg, out>>

\* the request of runner r is about to make one of the calls pcs
At(r, pcs) == procs.requests[r].pc \in pcs

\* the request of runner r makes its next call, which leaves step behind;
\* last takes the trace of a request that ends, and out what a call of
\* ensureSpreadsheetStructure_ made on its own leaves: [store, result,
\* properties]
Take(r, step) ==
    /\ \E next \in {step} :
        /\ primarySheet' = next.store.primary
        /\ votesSheet' = next.store.votes
        /\ uuids' = next.uuids
        /\ procs' = [procs EXCEPT !.requests[r] = next.request]
        /\ last' = IF next.request.pc = "ended" THEN next.request.trace ELSE last
        /\ out' = IF next.request.pc = "ended"
                        /\ next.request.op = "ensureSpreadsheetStructure_"
                  THEN Append(out, [store |-> next.store,
                                    result |-> next.request.trace.result,
                                    properties |-> next.request.properties])
                  ELSE out
    /\ UNCHANGED <<caches, today, arg>>

EnsureStorage(r) ==
    At(r, {"storage"}) /\ Take(r, StorageStep(Store, uuids, procs.requests[r]))

EnsureInsert(r) ==
    /\ At(r, {"insertPrimary", "insertVotes"})
    /\ Take(r, InsertStep(Store, uuids, procs.requests[r]))

EnsureHeaders(r) ==
    /\ At(r, {"headPrimary", "headVotes"})
    /\ Take(r, HeaderStep(Store, uuids, procs.requests[r]))

EnsureVotes(r) ==
    At(r, {"votesSheet"}) /\ Take(r, VotesSheetStep(Store, uuids, procs.requests[r]))

ServePage(r) ==
    At(r, {"page"}) /\ Take(r, PageStep(Store, uuids, procs.requests[r]))

GenerateKeyRead(r) ==
    At(r, {"generate"}) /\ Take(r, GenerateStep(Store, uuids, procs.requests[r], today))

GenerateFetch(r) ==
    At(r, {"fetch"}) /\ Take(r, FetchStep(Store, uuids, procs.requests[r]))

PersistSheet(r) ==
    /\ At(r, {"persistSheet"})
    /\ Take(r, PersistSheetStep(Store, uuids, procs.requests[r], today))

PersistUuid(r) ==
    At(r, {"persistUuid"}) /\ Take(r, PersistUuidStep(Store, uuids, procs.requests[r]))

PersistAppend(r) ==
    /\ At(r, {"persistAppend"})
    /\ Take(r, PersistAppendStep(Store, uuids, procs.requests[r], today))

StoredLastRow(r) ==
    At(r, {"storedRange"}) /\ Take(r, StoredRangeStep(Store, uuids, procs.requests[r]))

StoredGetValues(r) ==
    At(r, {"storedValues"}) /\ Take(r, StoredValuesStep(Store, uuids, procs.requests[r]))

VoteLastRow(r) ==
    At(r, {"voteRange"}) /\ Take(r, VoteRangeStep(Store, uuids, procs.requests[r]))

VoteGetValues(r) ==
    At(r, {"voteValues"}) /\ Take(r, VoteValuesStep(Store, uuids, procs.requests[r]))

VoteSetValue(r) ==
    At(r, {"voteSet"}) /\ Take(r, VoteSetStep(Store, uuids, procs.requests[r]))

VoteAppendRow(r) ==
    At(r, {"voteAudit"}) /\ Take(r, VoteAuditStep(Store, uuids, procs.requests[r], today))

\* the identifiers that can be handed out, and one that never is
SpecVoteIds == {getUuid(1..n) : n \in 0..MaxDrinks}

\* the rows a generateDrink or a registerVote in progress may still append
\* are counted against the bounds
RoomForDrink == Len(primarySheet.rows) + Cardinality(InProgress("generateDrink")) < MaxDrinks
RoomForVote == Len(votesSheet.rows) + Cardinality(InProgress("registerVote")) < MaxVotes

-----------------------------------------------------------------------------
(* Spec: two runners serve the requests, whose calls interleave *)

SpecGenerateRequests ==
    {GenerateRequest(AdaAstro, NoKey, FetchThrows),
     GenerateRequest(CyChrono, Property(Str(" sk-test ")), Http(200, BodyFull)),
     GenerateRequest(AdaAstro, PropertiesThrow, FetchThrows)}
    \cup {GenerateRequest(payload, Property(Str(" sk-test ")), Http(200, BodyFull)) :
            payload \in InvalidPayloads}

SpecVoteRequests ==
    {VoteRequest(drinkId, NoKey, "appends") :
        drinkId \in {Undefined, Str(""), Str("Drink ID")} \cup {Str(id) : id \in SpecVoteIds}}
    \cup {VoteRequest(Str("drink-1"), PropertiesThrow, "appends")}

SpecPlatforms == {NoKey, PropertiesThrow}

Init ==
    /\ primarySheet = NoSheet
    /\ votesSheet = NoSheet
    /\ uuids = {}
    /\ last = NoRun
    /\ procs = [requests |-> [r \in SpecRunners |-> NoRequest], admitted |-> 0]
    /\ caches = <<>>
    /\ today = Epoch
    /\ arg = Idle
    /\ out = Idle

Budget == procs.admitted < MaxRequests

DoGet(r) ==
    Budget /\ Invoke(r, {Invocation("doGet", <<>>, properties) : properties \in SpecPlatforms})

GenerateDrink(r) == Budget /\ RoomForDrink /\ Invoke(r, SpecGenerateRequests)

GetStoredDrinks(r) ==
    Budget /\ Invoke(r, {Invocation("getStoredDrinks", <<>>, properties) :
                            properties \in SpecPlatforms})

RegisterVote(r) == Budget /\ RoomForVote /\ Invoke(r, SpecVoteRequests)

Next ==
    \E r \in SpecRunners :
        \/ DoGet(r)
        \/ GenerateDrink(r)
        \/ GetStoredDrinks(r)
        \/ RegisterVote(r)
        \/ EnsureStorage(r)
        \/ EnsureInsert(r)
        \/ EnsureHeaders(r)
        \/ EnsureVotes(r)
        \/ ServePage(r)
        \/ GenerateKeyRead(r)
        \/ GenerateFetch(r)
        \/ PersistSheet(r)
        \/ PersistUuid(r)
        \/ PersistAppend(r)
        \/ StoredLastRow(r)
        \/ StoredGetValues(r)
        \/ VoteLastRow(r)
        \/ VoteGetValues(r)
        \/ VoteSetValue(r)
        \/ VoteAppendRow(r)

Spec == Init /\ [][Next]_vars

-----------------------------------------------------------------------------
(* SpecSerial: one runner, so that a request is taken only when the one
   before it has ended, on a platform whose every call succeeds *)

SerialPayloads == {AdaAstro, CyChrono} \cup InvalidPayloads
SerialProperties == {NoKey, Property(Str(" sk-test "))}
SerialResponses == {FetchThrows, Http(200, BodyFull)}

InitSerial ==
    /\ primarySheet = NoSheet
    /\ votesSheet = NoSheet
    /\ uuids = {}
    /\ last = NoRun
    /\ procs = [requests |-> [r \in SerialRunners |-> NoRequest], admitted |-> 0]
    /\ caches = <<>>
    /\ today = Epoch
    /\ arg = Idle
    /\ out = Idle

SerialDoGet(r) == Invoke(r, {Invocation("doGet", <<>>, NoKey)})

SerialGenerateDrink(r) ==
    /\ RoomForDrink
    /\ Invoke(r, {GenerateRequest(payload, properties, response) :
                    payload \in SerialPayloads, properties \in SerialProperties,
                    response \in SerialResponses})

SerialGetStoredDrinks(r) == Invoke(r, {Invocation("getStoredDrinks", <<>>, NoKey)})

SerialRegisterVote(r) ==
    /\ RoomForVote
    /\ Invoke(r, {VoteRequest(drinkId, NoKey, "appends") :
                    drinkId \in VoteArguments(SpecVoteIds)})

NextSerial ==
    \E r \in SerialRunners :
        \/ SerialDoGet(r)
        \/ SerialGenerateDrink(r)
        \/ SerialGetStoredDrinks(r)
        \/ SerialRegisterVote(r)
        \/ EnsureStorage(r)
        \/ EnsureInsert(r)
        \/ EnsureHeaders(r)
        \/ EnsureVotes(r)
        \/ ServePage(r)
        \/ GenerateKeyRead(r)
        \/ GenerateFetch(r)
        \/ PersistSheet(r)
        \/ PersistUuid(r)
        \/ PersistAppend(r)
        \/ StoredLastRow(r)
        \/ StoredGetValues(r)
        \/ VoteLastRow(r)
        \/ VoteGetValues(r)
        \/ VoteSetValue(r)
        \/ VoteAppendRow(r)

SpecSerial == InitSerial /\ [][NextSerial]_vars

-----------------------------------------------------------------------------
(* SpecGenerate: generateDrink on valid requests, under every property store
   and every answer of the completion API *)

MaxGenerated == 1

InitGenerate == InitSerial

\* without a key the answer the API would give is a good one throughout
GenerateInputs ==
    (ValidPayloads \X KeyedProperties \X Responses)
    \cup (ValidPayloads \X KeylessProperties \X {Http(200, BodyFull)})

GenerateAny(r) ==
    /\ Len(primarySheet.rows) < MaxGenerated
    /\ Invoke(r, {GenerateRequest(input[1], input[2], input[3]) : input \in GenerateInputs})

NextGenerate ==
    \E r \in SerialRunners :
        \/ GenerateAny(r)
        \/ EnsureStorage(r)
        \/ EnsureInsert(r)
        \/ EnsureHeaders(r)
        \/ EnsureVotes(r)
        \/ GenerateKeyRead(r)
        \/ GenerateFetch(r)
        \/ PersistSheet(r)
        \/ PersistUuid(r)
        \/ PersistAppend(r)

SpecGenerate == InitGenerate /\ [][NextGenerate]_vars

-----------------------------------------------------------------------------
(* SpecVotes: two registerVote requests, one to a runner, whose calls
   interleave on a store that holds two drinks *)

\* the two runners, one to a request
VoteRunners == {1, 2}

\* generateDrink on each of payloads in turn, from what run left behind
RECURSIVE GenerateEach(_, _)
GenerateEach(run, payloads) ==
    IF payloads = <<>> THEN run
    ELSE GenerateEach(With(run, LAMBDA left :
                          generateDrink(left.store, left.uuids, Head(payloads), NoKey,
                                        FetchThrows, Epoch)),
                      Tail(payloads))

\* the store the requests find: two drinks generated earlier, no vote yet
SeededRun ==
    GenerateEach([store |-> NewSpreadsheet, uuids |-> {}], <<AdaAstro, CyChrono>>)

InitVotes ==
    /\ \E seeded \in {SeededRun} :
        /\ primarySheet = seeded.store.primary
        /\ votesSheet = seeded.store.votes
        /\ uuids = seeded.uuids
    /\ today = Epoch
    /\ last = NoRun
    /\ procs = [requests |-> [r \in VoteRunners |-> NoRequest], admitted |-> 0]
    /\ caches = <<>>
    /\ arg = Idle
    /\ out = Idle

\* a runner that has served no request takes a registerVote
VoteBegin(r) ==
    /\ procs.requests[r].pc = "idle"
    /\ Invoke(r, {VoteRequest(drinkId, NoKey, "appends") :
                    drinkId \in VoteArguments(uuids \cup {"drink-0"})})

NextVotes ==
    \E r \in VoteRunners :
        \/ VoteBegin(r)
        \/ EnsureStorage(r)
        \/ EnsureVotes(r)
        \/ VoteLastRow(r)
        \/ VoteGetValues(r)
        \/ VoteSetValue(r)
        \/ VoteAppendRow(r)

SpecVotes == InitVotes /\ [][NextVotes]_vars

-----------------------------------------------------------------------------
(* Claims about normalizeOpenAiBlueprint_ (SpecNormalize) *)

Normalized == arg.fn = "normalizeOpenAiBlueprint_" /\ out.done

HasOwn(o, f) == o.k = "object" /\ f \in DOMAIN o.v

TextFields == {"drinkName", "reason", "compatibility"}
ListFields == {"ingredients", "instructions"}

DefaultText(f, context) ==
    CASE f = "drinkName" -> context.firstName \o " Signature Sip"
      [] f = "reason" -> "A bespoke creation blending celestial and personal motifs."
      [] f = "compatibility" -> "Tailored compatibility insight unavailable."

IsTrimmed(s) ==
    s = "" \/ (~IsSpace(Head(s)) /\ ~IsSpace(SubSeq(s, Len(s), Len(s))))

\* C8 as stated: a drinkName, reason or compatibility that is missing or is not
\* a string is replaced with its default string, for every raw value.
C8_AsStated ==
    Normalized =>
        \A f \in TextFields :
            (~HasOwn(arg.blueprint, f) \/ arg.blueprint.v[f].k # "string")
                => out.r[f] = DefaultText(f, arg.context)

\* C8 amended: a drinkName, reason or compatibility that is missing or falsy
\* (undefined, null, false, 0, NaN, the empty string) is replaced with its
\* default string, for every raw value including null; a truthy value that is
\* not a string (a non-zero number, true, an array, an object) is not replaced
\* but converted with String() and trimmed, and a non-empty string is trimmed.
C8_FalsyTextDefaults ==
    Normalized =>
        \A f \in TextFields :
            IF ~HasOwn(arg.blueprint, f)
            THEN out.r[f] = DefaultText(f, arg.context)
            ELSE LET x == arg.blueprint.v[f]
                 IN CASE x.k \in {"undefined", "null", "NaN"} ->
                            out.r[f] = DefaultText(f, arg.context)
                      [] x.k = "boolean" ->
                            out.r[f] = IF x.v THEN "true" ELSE DefaultText(f, arg.context)
                      [] x.k = "number" ->
                            out.r[f] = IF x.v = 0 THEN DefaultText(f, arg.context)
                                       ELSE NumStr(x.v)
                      [] x.k = "string" ->
                            /\ IsTrimmed(out.r[f])
                            /\ out.r[f] = IF x.v = "" THEN DefaultText(f, arg.context)
                                          ELSE trim(x.v)
                      [] x.k = "array" -> out.r[f] = trim(JoinFrom(x.v, 1, ","))
                      [] OTHER -> out.r[f] = "[object Object]"

C8_Witness ==
    /\ Normalized
    /\ HasOwn(arg.blueprint, "reason") /\ arg.blueprint.v.reason = Num(42)
    /\ ~HasOwn(arg.blueprint, "drinkName")
    /\ HasOwn(arg.blueprint, "compatibility") /\ arg.blueprint.v.compatibility = Null
    /\ out.r.reason = "42"
    /\ out.r.drinkName = "Ada Signature Sip"
    /\ out.r.compatibility = "Tailored compatibility insight unavailable."

\* C9: a raw value whose ingredients or instructions is missing or not an array
\* normalizes to the empty sequence for that field; an array normalizes to a
\* sequence of the same length and order whose entries are the elements
\* converted to strings and trimmed.
C9_ListsNormalized ==
    Normalized =>
        \A f \in ListFields :
            IF ~HasOwn(arg.blueprint, f) \/ arg.blueprint.v[f].k # "array"
            THEN out.r[f] = <<>>
            ELSE LET xs == arg.blueprint.v[f].v
                 IN /\ Len(out.r[f]) = Len(xs)
                    /\ \A i \in 1..Len(xs) :
                          /\ IsTrimmed(out.r[f][i])
                          /\ out.r[f][i] = trim(String(xs[i]))

C9_Witness ==
    /\ Normalized
    /\ ~HasOwn(arg.blueprint, "instructions")
    /\ HasOwn(arg.blueprint, "ingredients")
    /\ arg.blueprint.v.ingredients.k = "array"
    /\ Len(arg.blueprint.v.ingredients.v) = 5
    /\ out.r.instructions = <<>>
    /\ out.r.ingredients = <<"gin - 2 oz", "3", "null", "", "a,1">>

-----------------------------------------------------------------------------
(* Claims about sanitizeGenerationRequest_ (SpecSanitize) *)

Sanitized == arg.fn = "sanitizeGenerationRequest_" /\ out.done

\* the constraints of a GenerationRequest, read on the coerced field values
KeyOk(p) == trim(String(Or(Get(p, "generatorKey"), Str("")))) \in GeneratorKeys
InRange(x, lo, hi) == isInteger(x) /\ ~Below(x, lo) /\ ~Above(x, hi)
MonthOk(p) == InRange(Number(Get(p, "birthMonth")), 1, 12)
DayOk(p) == InRange(Number(Get(p, "birthDay")), 1, 31)
YearOk(p, year) == InRange(Number(Get(p, "birthYear")), 1900, year)
NamesOk(p) ==
    /\ trim(String(Or(Get(p, "firstName"), Str("")))) # ""
    /\ trim(String(Or(Get(p, "lastName"), Str("")))) # ""

ViolatedMessages(p, year) ==
    IF ~Truthy(p) THEN {"Generation payload is missing."}
    ELSE {m \in {ErrGenerator, ErrMonth, ErrDay, ErrYear, ErrNames} :
            \/ m = "An unsupported generator was selected." /\ ~KeyOk(p)
            \/ m = "Birth month must be an integer between 1 and 12." /\ ~MonthOk(p)
            \/ m = "Birth day must be an integer between 1 and 31." /\ ~DayOk(p)
            \/ m = "Birth year is invalid or not provided." /\ ~YearOk(p, year)
            \/ m = "First name and last name are required for drink generation."
                  /\ ~NamesOk(p)}

\* C10 as stated: a payload is accepted if and only if its generatorKey is one
\* of the five keys, its birth month, day and year are integers in 1..12,
\* 1..31 and 1900..current year, and both names are non-empty after trimming;
\* every other payload is rejected with the message of a violated constraint.
C10_AcceptsExactlyValid ==
    Sanitized =>
        IF ViolatedMessages(arg.payload, today.y) = {}
        THEN out.r.ok
        ELSE ~out.r.ok /\ out.r.error \in ViolatedMessages(arg.payload, today.y)

-----------------------------------------------------------------------------
(* Steps of a request, as the claims below speak of them *)

Before(r) == procs.requests[r]
After(r) == procs'.requests[r]

\* the request of runner r makes a call
Steps(r) == ~Free(r) /\ After(r) # Before(r)

\* the request of runner r makes the call at pc
StepsAt(r, pc) == Before(r).pc = pc /\ After(r) # Before(r)

\* it ends with this call
Ends(r) == Steps(r) /\ After(r).pc = "ended"

\* no request is in progress
Quiet == \A r \in Runners : Free(r)

Known(drinkId) ==
    /\ drinkId.k = "string"
    /\ \E i \in DOMAIN primarySheet.rows : primarySheet.rows[i].drinkId = drinkId.v

RowOf(id) == CHOOSE i \in DOMAIN primarySheet.rows : primarySheet.rows[i].drinkId = id

-----------------------------------------------------------------------------
(* Claims about registerVote run alone (SpecSerial) *)

\* C1: when requests run one at a time, a registerVote whose identifier
\* matches a row reads that row's count, sets the row's vote count to the
\* count plus 1 and leaves every other cell alone, appends exactly one
\* VoteAudit row carrying the identifier, the count read and the count
\* written, and returns the count written; its other calls change no row.
C1_VoteIncrements ==
    [][\A r \in Runners :
          (Steps(r) /\ Before(r).op = "registerVote" /\ Known(Before(r).input.drinkId)) =>
              LET id == Before(r).input.drinkId.v
                  i == RowOf(id)
                  count == primarySheet.rows[i].voteCount
              IN CASE Before(r).pc = "voteValues" ->
                        /\ After(r).pc = "voteSet"
                        /\ After(r).locals.currentVotes = count
                        /\ primarySheet' = primarySheet
                        /\ votesSheet' = votesSheet
                   [] Before(r).pc = "voteSet" ->
                        /\ Before(r).locals.currentVotes = count
                        /\ primarySheet'.rows =
                              [primarySheet.rows EXCEPT ![i].voteCount = count + 1]
                        /\ votesSheet' = votesSheet
                   [] Before(r).pc = "voteAudit" ->
                        /\ primarySheet' = primarySheet
                        /\ count = Before(r).locals.currentVotes + 1
                        /\ votesSheet'.rows =
                              Append(votesSheet.rows,
                                     [timestamp |-> today, drinkId |-> id,
                                      previousVotes |-> count - 1, newVotes |-> count,
                                      action |-> "increment"])
                        /\ After(r).pc = "ended"
                        /\ After(r).trace.result =
                              Return([drinkId |-> id, voteCount |-> count])
                   [] OTHER ->
                        /\ After(r).pc # "ended"
                        /\ primarySheet'.rows = primarySheet.rows
                        /\ votesSheet'.rows = votesSheet.rows]_vars

\* a second vote has landed on the second drink
C1_Witness ==
    /\ Quiet
    /\ last.op = "registerVote"
    /\ last.result.ok
    /\ last.result.value = [drinkId |-> "drink-2", voteCount |-> 2]
    /\ primarySheet.rows[2].voteCount = 2
    /\ Len(votesSheet.rows) = 2

-----------------------------------------------------------------------------
(* Claims about registerVote on an argument that matches no row (Spec) *)

\* C2, as stated, for the empty or missing identifier, which matches no row
\* at any time: no call of a registerVote on such an argument changes a row
\* of GeneratedDrinks or of VoteAudit, and the request ends with an error.
C2_AsStated ==
    [][\A r \in Runners :
          (Steps(r) /\ Before(r).op = "registerVote" /\ ~Truthy(Before(r).input.drinkId)) =>
              /\ primarySheet'.rows = primarySheet.rows
              /\ votesSheet'.rows = votesSheet.rows
              /\ After(r).pc = "ended" => ~After(r).trace.result.ok]_vars

-----------------------------------------------------------------------------
(* Claims about interleaved registerVote requests (SpecVotes) *)

Voted(r) ==
    /\ procs.requests[r].pc = "ended"
    /\ procs.requests[r].op = "registerVote"
    /\ procs.requests[r].trace.result.ok

\* two finished requests that voted for the same drink and read the same count
ReadTheSame(p, q) ==
    /\ p # q
    /\ Voted(p)
    /\ Voted(q)
    /\ procs.requests[p].input.drinkId = procs.requests[q].input.drinkId
    /\ procs.requests[p].locals.currentVotes = procs.requests[q].locals.currentVotes

\* C3: when two requests for the same drink have both read the same count and
\* both completed, the stored count is that count plus 1 only, and VoteAudit
\* holds two rows with the same identifier, previous and new values.
C3_LostUpdate ==
    \A p \in Runners, q \in Runners :
        ReadTheSame(p, q) =>
            LET id == procs.requests[p].input.drinkId.v
                count == procs.requests[p].locals.currentVotes
            IN /\ primarySheet.rows[RowOf(id)].voteCount = count + 1
               /\ Cardinality({i \in DOMAIN votesSheet.rows :
                        /\ votesSheet.rows[i].drinkId = id
                        /\ votesSheet.rows[i].previousVotes = count
                        /\ votesSheet.rows[i].newVotes = count + 1}) = 2

\* the lost update: two votes completed, the count stands at 1
C3_Witness ==
    /\ ReadTheSame(1, 2)
    /\ procs.requests[1].trace.result.value.voteCount = 1
    /\ procs.requests[2].trace.result.value.voteCount = 1
    /\ primarySheet.rows[1].voteCount = 1
    /\ Len(votesSheet.rows) = 2

-----------------------------------------------------------------------------
(* Claims about generateDrink and the remote override (SpecGenerate) *)

Generated == last.op = "generateDrink"

ValidRequest == ViolatedMessages(last.payload, today.y) = {}

KeyConfigured(properties) ==
    /\ properties.kind = "store"
    /\ properties.value.k = "string"
    /\ trim(properties.value.v) # ""

\* the key is absent or blank, or the read of it throws
KeyUnread(properties) ==
    \/ properties.kind = "keyThrows"
    \/ /\ properties.kind = "store"
       /\ \/ properties.value.k = "null"
          \/ properties.value.k = "string" /\ trim(properties.value.v) = ""

\* the same, or every access to the property store throws
KeyUnavailable(properties) == KeyUnread(properties) \/ properties.kind = "throws"

IsSuccessStatus(response) ==
    response.kind = "http" /\ 200 <= response.status /\ response.status <= 299

\* the failures C4 lists: the fetch throws, the status is outside 200..299,
\* the body is no JSON, has no choices or no message content, or the content
\* is no JSON
RemoteFailure(response) ==
    \/ response.kind = "throws"
    \/ response.kind = "http" /\ ~IsSuccessStatus(response)
    \/ IsSuccessStatus(response) /\ response.body \in BrokenBodies

RemoteSuccess(response) == IsSuccessStatus(response) /\ response.body \in CompletionBodies

\* what the message content of a completion body holds
CompletionContent(body) ==
    CASE body = BodyFull -> JSONparse(ContentFull).value
      [] body = BodyPartial -> Obj([drinkName |-> Str("Neon Fizz")])
      [] body = BodyEmptyObject -> Obj(EmptyFields)
      [] body = BodyNullContent -> Null
      [] body = BodyNumberContent -> Num(7)

RequestOf(payload) == sanitizeGenerationRequest_(payload, today.y).value

\* the blueprint of the Generator Table for the request
TableBlueprint(payload) ==
    RunGenerator(RequestOf(payload).generatorKey,
                 buildGenerationContext_(RequestOf(payload)), today).blueprint

BlueprintOf(value) ==
    [drinkName |-> value.drinkName, reason |-> value.reason,
     ingredients |-> value.ingredients, instructions |-> value.instructions,
     compatibility |-> value.compatibility]

\* the run returned normally with this blueprint and its row is the last of
\* GeneratedDrinks
ReturnedAndPersisted(blueprint) ==
    /\ last.result.ok
    /\ BlueprintOf(last.result.value) = blueprint
    /\ Len(primarySheet.rows) > 0
    /\ LET row == primarySheet.rows[Len(primarySheet.rows)]
       IN /\ row.drinkId = last.result.value.drinkId
          /\ row.generatorKey = RequestOf(last.payload).generatorKey
          /\ row.drinkName = blueprint.drinkName
          /\ row.reason = blueprint.reason
          /\ CellList(row.ingredients) = blueprint.ingredients
          /\ CellList(row.instructions) = blueprint.instructions
          /\ row.compatibility = blueprint.compatibility

\* C4: for a valid request with a key configured, whenever the remote
\* generation fails in one of the listed ways, generateDrink returns normally
\* with the blueprint of the generator selected by generatorKey, persisted.
C4_RemoteFailureFallsBack ==
    (Generated /\ ValidRequest /\ KeyConfigured(last.properties)
        /\ last.fetched /\ RemoteFailure(last.response))
    => ReturnedAndPersisted(TableBlueprint(last.payload))

\* a null choice made the remote call fail with a TypeError, and the drink of
\* the chrono generator came back
C4_Witness ==
    /\ Generated
    /\ last.payload = CyChrono
    /\ last.fetched
    /\ last.response = Http(200, BodyNullChoice)
    /\ last.result.ok
    /\ last.result.value.drinkName = "Chrono Cascade CY"

MissingKeys(response) ==
    IsSuccessStatus(response) /\ response.body \in {BodyPartial, BodyEmptyObject}

\* C5 as stated: a 2xx answer whose content is valid JSON without the
\* blueprint keys makes generateDrink fall back to the Generator Table.
C5_AsStated ==
    (Generated /\ ValidRequest /\ last.fetched /\ MissingKeys(last.response))
    => ReturnedAndPersisted(TableBlueprint(last.payload))

\* C5: a 2xx answer whose content is valid JSON without the blueprint keys is
\* not a failure: generateDrink persists and returns the remote blueprint with
\* each missing text replaced by its default and each missing list empty, and
\* the generator is not run.
C5_MissingKeysDefaulted ==
    (Generated /\ ValidRequest /\ last.fetched /\ MissingKeys(last.response))
    => LET content == CompletionContent(last.response.body)
           context == [firstName |-> RequestOf(last.payload).firstName]
       IN /\ last.result.ok
          /\ \A f \in TextFields :
                last.result.value[f] = IF HasOwn(content, f) THEN trim(content.v[f].v)
                                       ELSE DefaultText(f, context)
          /\ \A f \in ListFields : ~HasOwn(content, f) => last.result.value[f] = <<>>
          /\ ReturnedAndPersisted(BlueprintOf(last.result.value))
          /\ last.draws = 0

\* an empty JSON object came back and the drink is made of defaults
C5_Witness ==
    /\ Generated
    /\ last.payload = AdaAstro
    /\ last.fetched
    /\ last.response = Http(200, BodyEmptyObject)
    /\ last.result.ok
    /\ last.result.value.drinkName = "Ada Signature Sip"
    /\ last.result.value.ingredients = <<>>

\* C6 as stated: for a valid request, when the key is absent, blank after
\* trimming, or reading the property store throws, no request goes to the
\* completion API and generateDrink returns normally with the generator's
\* blueprint, persisted.
C6_AsStated ==
    (Generated /\ ValidRequest /\ KeyUnavailable(last.properties))
    => /\ ~last.fetched
       /\ ReturnedAndPersisted(TableBlueprint(last.payload))

\* C6: for a valid request, when the key is absent, blank after trimming, or
\* the read of the key throws, no request goes to the completion API and
\* generateDrink returns normally with the generator's blueprint, persisted;
\* when every access to the property store throws, generateDrink fails with
\* that error before the key is read, and still issues no request.
C6_NoKeyNoFetch ==
    (Generated /\ ValidRequest)
    => /\ KeyUnread(last.properties)
            => /\ ~last.fetched
               /\ ReturnedAndPersisted(TableBlueprint(last.payload))
       /\ last.properties.kind = "throws"
            => /\ ~last.fetched
               /\ last.result = Throw(ErrPropertyStore)
               /\ last.draws = 0

\* a key of blanks: no fetch, the numerology drink came back
C6_Witness ==
    /\ Generated
    /\ last.payload = BoNumerology
    /\ last.properties = Property(Str("   "))
    /\ ~last.fetched
    /\ last.result.ok
    /\ last.result.value.drinkName = "Life Path Libation 3"
    /\ last.draws = 2

\* C7: when the key is configured and the remote generation succeeds, the
\* blueprint persisted and returned is the normalized remote blueprint and no
\* PRNG draw is made.
C7_RemoteSupersedes ==
    (Generated /\ ValidRequest /\ KeyConfigured(last.properties)
        /\ last.fetched /\ RemoteSuccess(last.response))
    => /\ ReturnedAndPersisted(normalizeOpenAiBlueprint_(
              CompletionContent(last.response.body),
              [firstName |-> RequestOf(last.payload).firstName]))
       /\ last.draws = 0

\* the full remote blueprint came back trimmed, with no draw
C7_Witness ==
    /\ Generated
    /\ last.fetched
    /\ last.response = Http(299, BodyFull)
    /\ last.result.ok
    /\ last.result.value.drinkName = "Neon Fizz"
    /\ last.result.value.ingredients = <<"gin - 2 oz", "tonic - 4 oz">>
    /\ last.draws = 0

-----------------------------------------------------------------------------
(* Claims about the order of the validation checks (SpecSanitize) *)

\* the constraints in the order the claim lists them
MessageOrder == <<ErrPayloadMissing, ErrGenerator, ErrMonth, ErrDay, ErrYear, ErrNames>>

\* the message of the first constraint, in that order, that p violates
FirstViolation(p, year) ==
    MessageOrder[CHOOSE i \in 1..Len(MessageOrder) :
                    /\ MessageOrder[i] \in ViolatedMessages(p, year)
                    /\ \A j \in 1..(i - 1) : MessageOrder[j] \notin ViolatedMessages(p, year)]

\* a rejected payload is reported with its first violated constraint
FirstViolationReported ==
    (Sanitized /\ ViolatedMessages(arg.payload, today.y) # {}) =>
        ~out.r.ok /\ out.r.error = FirstViolation(arg.payload, today.y)

SameOutcome(a, b) == a.ok = b.ok /\ (~a.ok => a.error = b.error)

\* the outcome is the same on every date the payload can arrive on
PayloadAloneDecides ==
    Sanitized =>
        \A date \in SanitizeDates :
            SameOutcome(out.r, sanitizeGenerationRequest_(arg.payload, date.y))

\* C11 as stated: a payload violating several constraints is rejected with the
\* message of the first one in the order payload missing, generatorKey,
\* birthMonth, birthDay, birthYear, names, and the reported error depends on
\* the payload alone.
C11_FirstViolationOnly == FirstViolationReported /\ PayloadAloneDecides

-----------------------------------------------------------------------------
(* SpecGenerators: the generator of one validated request, run at several
   points in time. out is the sequence of the runs made so far, each with the
   date it ran on; the context is built anew for each run. *)

MaxRuns == 2

GeneratorPayloads ==
    {AdaAstro, BoNumerology, CyChrono, DeeOracle, EliDynasty,
     Payload("astro", 12, 25, 1984, "Bo", "Li"),
     Payload("astro", 3, 20, 1962, "Flo", "Featherstone"),
     Payload("astro", 1, 5, 2001, "bo", "Featherstonehaugh"),
     Payload("numerology", 6, 1, 1990, "Ada", "Lovelace"),
     Payload("chrono", 12, 31, 2026, "Ada", "Lovelace"),
     Payload("chrono", 1, 1, 1900, "Old", "Tom"),
     Payload("chrono", 2, 31, 1990, "Ada", "Lovelace"),
     Payload("oracle", 1, 15, 2001, "Ann", "Snow"),
     Payload("dynasty", 6, 1, 1990, "Ada", "Rossi")}

\* half past midnight and noon of a day in summer time for a birth in winter
\* time, two readings of the next day with the offset of the birth, and a
\* late evening in winter time for a birth in summer time
GeneratorDates ==
    {Clock(2026, 10, 30, 30, 60), Clock(2026, 10, 30, 720, 60),
     Clock(2026, 10, 31, 720, 0), Clock(2026, 10, 31, 1080, 0),
     Clock(2027, 1, 1, 1410, -60)}

Later(a, b) ==
    DayNumber(a.y, a.m, a.d) * 1440 + a.min > DayNumber(b.y, b.m, b.d) * 1440 + b.min

InitGenerators ==
    /\ StoreIdle
    /\ today \in GeneratorDates
    /\ arg \in {[fn |-> "generator", request |-> sanitizeGenerationRequest_(p, today.y).value] :
                  p \in {q \in GeneratorPayloads : sanitizeGenerationRequest_(q, today.y).ok}}
    /\ out = <<>>

\* lines 84-87 and 107-108: build the context, resolve the generator, run it
RunGeneratorAt ==
    /\ arg.fn = "generator"
    /\ Len(out) < MaxRuns
    /\ \E context \in {buildGenerationContext_(arg.request)} :
        \E result \in {RunGenerator(arg.request.generatorKey, context, today)} :
            out' = Append(out, [now |-> today, context |-> context, result |-> result])
    /\ UNCHANGED <<caches, primarySheet, votesSheet, uuids, today, last, procs, arg>>

\* time passes between two runs
AdvanceClock ==
    /\ arg.fn = "generator"
    /\ Len(out) < MaxRuns
    /\ today' \in {date \in GeneratorDates : Later(date, today)}
    /\ UNCHANGED <<caches, primarySheet, votesSheet, uuids, last, procs, arg, out>>

NextGenerators == RunGeneratorAt \/ AdvanceClock

SpecGenerators == InitGenerators /\ [][NextGenerators]_vars

-----------------------------------------------------------------------------
(* Claims about the generators (SpecGenerators) *)

Runs == DOMAIN out

RunKey == arg.request.generatorKey

\* C12 as stated: for each of the five generator keys, two runs of the
\* generator on contexts built from the same request fields, at any two
\* points in time, yield the same blueprint.
C12_AsStated ==
    arg.fn = "generator" =>
        \A i, j \in Runs : out[i].result.blueprint = out[j].result.blueprint



\* the table reads a run makes with an index or key derived from a date
SpiritIndexInRange(run) ==
    SpiritIndex(AgeInDays(run.context, run.now)) \in 0..(Len(DecadeSpiritMap) - 1)

MutationIndexInRange(run) == MutationIndex(run.now) \in 0..(Len(MixerMap) - 1)

SeasonInTable(run) == inferBirthSeason_(run.context.birthMonth) \in DOMAIN SeasonalIngredients

\* C13 as stated: in every generator, every index computed from a date and
\* used to read a lookup table lies within the table's range, for every
\* request that passes validation, a birth date later than today included;
\* no ingredient line is built from a read outside a table.
C13_DateIndicesInRange ==
    arg.fn = "generator" =>
        \A i \in Runs :
            /\ RunKey = "chrono" =>
                  /\ SpiritIndexInRange(out[i])
                  /\ MutationIndexInRange(out[i])
                  /\ out[i].result.blueprint.ingredients[1] # "undefined - 1.75 oz"
            /\ RunKey = "oracle" => SeasonInTable(out[i])

\* the generator run on the context of payload p, on the date given
RunOf(p, now) ==
    With(buildGenerationContext_(sanitizeGenerationRequest_(p, now.y).value),
         LAMBDA context : RunGenerator(context.generatorKey, context, now))

\* the valid payloads that select the same generator as the request at hand
SameKeyPayloads(now) ==
    {p \in GeneratorPayloads :
        /\ sanitizeGenerationRequest_(p, now.y).ok
        /\ sanitizeGenerationRequest_(p, now.y).value.generatorKey = RunKey}

\* C15 as stated: for each generator key, the number of PRNG draws the
\* generator makes is the same for every valid context.
C15_AsStated ==
    arg.fn = "generator" =>
        \A i \in Runs : \A p \in SameKeyPayloads(out[i].now) :
            out[i].result.rnd.draws = RunOf(p, out[i].now).rnd.draws

\* the layers of the astro recipe: 3 for a last name of up to 9 characters,
\* 4 for 10 to 12, 5 beyond
LayersOf(length) == IF length <= 9 THEN 3 ELSE IF length <= 12 THEN 4 ELSE 5

\* the draws each generator makes on the context of a request
DrawsOf(request) ==
    CASE request.generatorKey = "astro" -> 3 + (LayersOf(Len(request.lastName)) - 2)
      [] request.generatorKey = "numerology" -> 2
      [] request.generatorKey = "chrono" -> 1
      [] request.generatorKey = "oracle" -> 3
      [] request.generatorKey = "dynasty" -> 1

\* C15 amended: the number of PRNG draws is fixed by the generator key and
\* the context: 2 for numerology, 1 for chrono, 3 for oracle, 1 for dynasty,
\* and for astro 3 plus one per mixer, which is 1, 2 or 3 with the length of
\* the last name; two runs on the same context make the same number of draws
\* and leave the PRNG in the same state.
C15_DrawsFixedByContext ==
    arg.fn = "generator" =>
        /\ \A i \in Runs : out[i].result.rnd.draws = DrawsOf(arg.request)
        /\ \A i, j \in Runs : out[i].result.rnd = out[j].result.rnd

C15_Witness ==
    /\ arg.fn = "generator"
    /\ RunKey = "astro"
    /\ Len(arg.request.lastName) = 17
    /\ Len(out) = 2
    /\ out[2].result.rnd.draws = 6
    /\ Len(out[2].result.blueprint.ingredients) = 6

-----------------------------------------------------------------------------
(* SpecRandom: createDeterministicRandom_ called twice with one seed, and the
   two functions it returned called in any order. A function value is a
   reference to the scope it closes over: procs.scopes lists the scopes made,
   each holding its variable h, and procs.closures[g] is the scope of the
   function g names (0 before it is made). out[g] lists the values g has
   returned, each as its numerator over 2^32. *)

MaxDraws == 3

Instances == {"one", "two"}

RandomSeeds ==
    {"", "a", "astro|6|1|1990|Ada|Lovelace", "numerology|12|25|1984|Bo|Diaz",
     "chrono|2|29|2000|Cy|Young"}

\* h kept in one place for all the functions returned: a later one closes
\* over the scope of the first
SharedClosure(scopes, seed) ==
    IF scopes = <<>>
    THEN [scopes |-> <<createDeterministicRandom_(seed)>>, ref |-> 1]
    ELSE [scopes |-> scopes, ref |-> 1]

\* lines 895-901: a call of createDeterministicRandom_ makes a scope with its
\* own h (let h) and returns a function closing over it
NewClosure(scopes, seed) ==
    [scopes |-> Append(scopes, createDeterministicRandom_(seed)), ref |-> Len(scopes) + 1]

InitRandom ==
    /\ primarySheet = NoSheet
    /\ votesSheet = NoSheet
    /\ uuids = {}
    /\ last = NoRun
    /\ today = Epoch
    /\ arg \in {[fn |-> "createDeterministicRandom_", seed |-> seed] : seed \in RandomSeeds}
    /\ procs = [scopes |-> <<>>, closures |-> [g \in Instances |-> 0]]
    /\ caches = <<>>
    /\ out = [g \in Instances |-> <<>>]

\* lines 895-901: one call of createDeterministicRandom_(seed)
CreateRandom(g) ==
    /\ arg.fn = "createDeterministicRandom_"
    /\ procs.closures[g] = 0
    /\ \E made \in {NewClosure(procs.scopes, arg.seed)} :
        procs' = [scopes |-> made.scopes,
                  closures |-> [procs.closures EXCEPT ![g] = made.ref]]
    /\ UNCHANGED <<caches, primarySheet, votesSheet, uuids, today, last, arg, out>>

\* lines 901-906: one call of the function g
DrawRandom(g) ==
    /\ arg.fn = "createDeterministicRandom_"
    /\ procs.closures[g] # 0
    /\ Len(out[g]) < MaxDraws
    /\ \E h \in {random(procs.scopes[procs.closures[g]])} :
        /\ procs' = [procs EXCEPT !.scopes[procs.closures[g]] = h]
        /\ out' = [out EXCEPT ![g] = Append(@, Quotient(h))]
    /\ UNCHANGED <<caches, primarySheet, votesSheet, uuids, today, last, arg>>

NextRandom == \E g \in Instances : CreateRandom(g) \/ DrawRandom(g)

SpecRandom == InitRandom /\ [][NextRandom]_vars

-----------------------------------------------------------------------------
(* Claims about createDeterministicRandom_ (SpecRandom) *)

\* the first draws of a function made from each seed, numerators over 2^32,
\* computed apart from the operators above, by the arithmetic of lines 896-905
FirstDraws ==
    [seed \in RandomSeeds |->
        CASE seed = "" ->
                <<Word(2548, 24425), Word(39834, 54409), Word(22817, 51532),
                  Word(20623, 29342), Word(3903, 25889)>>
          [] seed = "a" ->
                <<Word(7923, 57338), Word(58598, 51063), Word(17746, 15711),
                  Word(59658, 50110), Word(34738, 48285)>>
          [] seed = "astro|6|1|1990|Ada|Lovelace" ->
                <<Word(50081, 34059), Word(59018, 5773), Word(17464, 23359),
                  Word(3789, 57075), Word(38851, 26066)>>
          [] seed = "numerology|12|25|1984|Bo|Diaz" ->
                <<Word(27185, 23154), Word(22514, 57999), Word(60749, 57193),
                  Word(16487, 61569), Word(195, 27142)>>
          [] seed = "chrono|2|29|2000|Cy|Young" ->
                <<Word(26937, 31617), Word(16174, 8166), Word(2211, 16039),
                  Word(35558, 13739), Word(15643, 61121)>>]

\* C14: two functions made by createDeterministicRandom_ from the same seed
\* return the same values draw for draw, however the calls of the two are
\* interleaved: each returns the sequence its seed fixes, whatever has been
\* drawn from the other; every value returned is an unsigned 32-bit integer
\* over 2^32, hence in [0, 1).
C14_SameSeedSameDraws ==
    arg.fn = "createDeterministicRandom_" =>
        /\ \A i \in DOMAIN out["one"] \cap DOMAIN out["two"] : out["one"][i] = out["two"][i]
        /\ \A g \in Instances : \A i \in DOMAIN out[g] :
            /\ i \in DOMAIN FirstDraws[arg.seed] => out[g][i] = FirstDraws[arg.seed][i]
            /\ InUnitInterval(out[g][i])

\* one has been called three times and two once, after one's first call:
\* two's first value is one's first
C14_Witness ==
    /\ arg.fn = "createDeterministicRandom_"
    /\ arg.seed = "astro|6|1|1990|Ada|Lovelace"
    /\ out["one"] = <<Word(50081, 34059), Word(59018, 5773), Word(17464, 23359)>>
    /\ out["two"] = <<Word(50081, 34059)>>
    /\ procs.closures["one"] # procs.closures["two"]

-----------------------------------------------------------------------------

(* SpecSelection: buildUniqueSelection_ and randomPick_ applied once to a
   random function fresh from its seed *)

MaxOptions == 4

OptionPool == <<"tonic", "tea", "juice", "nectar", "water", "soda", "cola">>

\* the arrays of 0..MaxOptions options
OptionLists == {SubSeq(OptionPool, 1, n) : n \in 0..MaxOptions}

Counts == (0 - 2)..(MaxOptions + 1)

SelectionSeeds == {"", "a", "astro|6|1|1990|Ada|Lovelace"}

InitSelection ==
    /\ StoreIdle
    /\ today = Epoch
    /\ arg \in {[fn |-> "buildUniqueSelection_", seed |-> seed, options |-> options,
                 count |-> count] :
                   seed \in SelectionSeeds, options \in OptionLists, count \in Counts}
               \cup {[fn |-> "randomPick_", seed |-> seed, collection |-> collection] :
                       seed \in SelectionSeeds,
                       collection \in {Undefined, Null} \cup {Arr(o) : o \in OptionLists}}
    /\ out = Idle

\* lines 917-925, called with the array arg.options, which is the caller's
\* to read after the call
ApplySelection ==
    /\ arg.fn = "buildUniqueSelection_"
    /\ ~out.done
    /\ \E call \in {buildUniqueSelection_(Source(createDeterministicRandom_(arg.seed)),
                                          arg.options, arg.count)} :
        /\ out' = Done([value |-> call.value, rnd |-> call.rnd])
        /\ arg' = [arg EXCEPT !.options = call.options]
    /\ UNCHANGED <<caches, primarySheet, votesSheet, uuids, today, last, procs>>

\* lines 934-940
ApplyPick ==
    /\ arg.fn = "randomPick_"
    /\ ~out.done
    /\ out' = Done(randomPickOf_(Source(createDeterministicRandom_(arg.seed)),
                                 arg.collection))
    /\ UNCHANGED <<caches, primarySheet, votesSheet, uuids, today, last, procs, arg>>

NextSelection == ApplySelection \/ ApplyPick

SpecSelection == InitSelection /\ [][NextSelection]_vars

-----------------------------------------------------------------------------
(* Claims about the selection utilities (SpecSelection) *)

Min(a, b) == IF a < b THEN a ELSE b
Max(a, b) == IF a > b THEN a ELSE b

\* the 1-based positions of options at which element stands
PositionsOf(options, element) == {i \in DOMAIN options : options[i] = element}


\* the selection returned, read against the array options
SelectionOf(options, count, result) ==
    /\ Len(result.value) = Min(Max(count, 0), Len(options))
    /\ \A i \in DOMAIN result.value : PositionsOf(options, result.value[i]) # {}
    /\ \A i, j \in DOMAIN result.value :
          i # j => PositionsOf(options, result.value[i])
                      \cap PositionsOf(options, result.value[j]) = {}
    /\ count <= 0 => result.value = <<>>
    /\ count > Len(options) =>
          {result.value[i] : i \in DOMAIN result.value}
              = {options[i] : i \in DOMAIN options}
    /\ result.rnd.draws = Len(result.value)

\* C16: buildUniqueSelection_ returns min(max(count, 0), length of options)
\* elements, each standing at a position of options no other element of the
\* result stands at: nothing for count <= 0, a permutation of options when
\* count exceeds the pool; one draw is made per element returned; and the
\* array options holds after the call what it held before.
C16_UniqueSelection ==
    [][(arg.fn = "buildUniqueSelection_" /\ ~out.done /\ out'.done) =>
          /\ arg'.options = arg.options
          /\ arg'.count = arg.count
          /\ SelectionOf(arg.options, arg.count, out'.r)]_vars

C16_Witness ==
    /\ arg.fn = "buildUniqueSelection_"
    /\ out.done
    /\ arg.options = <<"tonic", "tea", "juice", "nectar">>
    /\ arg.count = 5
    /\ Len(out.r.value) = 4
    /\ out.r.value # arg.options

\* C17: randomPick_ on a non-empty array makes exactly one draw f and returns
\* the element at index floor(f * length), an index of the array; on an empty
\* array, null or undefined it returns null and draws nothing.
C17_PickOneDraw ==
    (arg.fn = "randomPick_" /\ out.done) =>
        IF Truthy(arg.collection) /\ Len(arg.collection.v) > 0
        THEN /\ out.r.rnd.draws = 1
             /\ out.r.rnd.h = random(createDeterministicRandom_(arg.seed))
             /\ FloorTimes(out.r.rnd.h, Len(arg.collection.v))
                   \in 0..(Len(arg.collection.v) - 1)
             /\ out.r.value
                   = arg.collection.v[FloorTimes(out.r.rnd.h, Len(arg.collection.v)) + 1]
        ELSE /\ out.r.value = NoPick
             /\ out.r.rnd = Source(createDeterministicRandom_(arg.seed))

C17_Witness ==
    /\ arg.fn = "randomPick_"
    /\ out.done
    /\ arg.seed = "astro|6|1|1990|Ada|Lovelace"
    /\ arg.collection = Arr(<<"tonic", "tea", "juice", "nectar">>)
    /\ out.r.value = "nectar"

-----------------------------------------------------------------------------
(* SpecContext: getZodiacProfile_ and computeNumerologyValue_, the helpers of
   the context builder, each applied once *)

Months == 1..12
Days == 1..31

FirstNames ==
    {"", "A", "J", "S", "Ada", "bo", "ZZZZZZZ", LowerEAcute, SharpS, "123", "O'Neil", "Q"}
LastNames == {"", "B", "Lovelace", "Q", "ZZZZZ", "Young-Smith"}

\* line 423: firstName + ' ' + lastName
NumerologyTexts == {first \o " " \o lastName : first \in FirstNames, lastName \in LastNames}

InitContext ==
    /\ StoreIdle
    /\ today = Epoch
    /\ arg \in {[fn |-> "getZodiacProfile_", month |-> month, day |-> day] :
                  month \in Months, day \in Days}
               \cup {[fn |-> "computeNumerologyValue_", text |-> text] :
                       text \in NumerologyTexts \cup {""}}
    /\ out = Idle

ApplyZodiac ==
    /\ arg.fn = "getZodiacProfile_"
    /\ ~out.done
    /\ out' = Done(getZodiacProfile_(arg.month, arg.day))
    /\ UNCHANGED <<caches, primarySheet, votesSheet, uuids, today, last, procs, arg>>

ApplyNumerology ==
    /\ arg.fn = "computeNumerologyValue_"
    /\ ~out.done
    /\ out' = Done(computeNumerologyValue_(arg.text))
    /\ UNCHANGED <<caches, primarySheet, votesSheet, uuids, today, last, procs, arg>>

NextContext == ApplyZodiac \/ ApplyNumerology

SpecContext == InitContext /\ [][NextContext]_vars

-----------------------------------------------------------------------------
(* Claims about the helpers of the context builder (SpecContext) *)

\* (month, day) pairs in calendar order
NotAfter(a, b) == a[1] < b[1] \/ (a[1] = b[1] /\ a[2] <= b[2])

\* the inclusive interval of a profile holds the date; an interval whose
\* start comes after its end wraps the year boundary
Holds(profile, date) ==
    IF NotAfter(profile.start, profile.end)
    THEN NotAfter(profile.start, date) /\ NotAfter(date, profile.end)
    ELSE NotAfter(profile.start, date) \/ NotAfter(date, profile.end)

HoldersOf(date) == {i \in DOMAIN ZodiacProfiles : Holds(ZodiacProfiles[i], date)}

\* C18: for every month in 1..12 and day in 1..31 exactly one table entry's
\* inclusive interval holds the date, and getZodiacProfile_ returns that
\* entry, so the fallback after the loop is never reached; (12,25) and
\* (12,22) are Capricorn, (12,21) is Sagittarius, (6,21) is Cancer.
C18_ZodiacByInterval ==
    (arg.fn = "getZodiacProfile_" /\ out.done) =>
        /\ Cardinality(HoldersOf(<<arg.month, arg.day>>)) = 1
        /\ \A i \in HoldersOf(<<arg.month, arg.day>>) : out.r = ZodiacProfiles[i]
        /\ (arg.month = 12 /\ arg.day \in {22, 25}) => out.r.sign = "Capricorn"
        /\ (arg.month = 12 /\ arg.day = 21) => out.r.sign = "Sagittarius"
        /\ (arg.month = 6 /\ arg.day = 21) => out.r.sign = "Cancer"

C18_Witness ==
    /\ arg.fn = "getZodiacProfile_"
    /\ out.done
    /\ arg.month = 12
    /\ arg.day = 21
    /\ out.r.sign = "Sagittarius"
    /\ out.r.signatureSpirit = "rye whiskey"

\* the sum of the alphabet positions of the letters of a text
PositionSum(text) == LetterSum(toUpperCase(text))

\* C19: computeNumerologyValue_ returns an integer in 1..9 for every text: 1
\* when the text has no letter, and for a letter-position sum S > 0 the
\* digital root 1 + ((S - 1) mod 9); each pass of the digit-summing loop
\* lowers the total, so the loop ends.
C19_NumerologyDigitalRoot ==
    (arg.fn = "computeNumerologyValue_" /\ out.done) =>
        /\ out.r \in 1..9
        /\ PositionSum(arg.text) = 0 => out.r = 1
        /\ PositionSum(arg.text) > 0 => out.r = 1 + ((PositionSum(arg.text) - 1) % 9)
        /\ \A total \in 10..PositionSum(arg.text) : DigitSum(total) < total
        /\ arg.text = "A B" => out.r = 3
        /\ arg.text = "J " => out.r = 1

C19_Witness ==
    /\ arg.fn = "computeNumerologyValue_"
    /\ out.done
    /\ arg.text = "ZZZZZZZ Q"
    /\ PositionSum(arg.text) = 199
    /\ out.r = 1

-----------------------------------------------------------------------------
(* Claims about the rows of GeneratedDrinks (Spec) *)

\* the columns of a row other than its vote count
Creation(row) == [column \in DOMAIN row \ {"voteCount"} |-> row[column]]

\* C20, as stated: across every call of every request, every row of
\* GeneratedDrinks stays where it is with the columns written at its
\* creation, and its vote count is a non-negative integer that does not
\* decrease.
C20_AsStated ==
    [][/\ Len(primarySheet'.rows) >= Len(primarySheet.rows)
       /\ \A i \in DOMAIN primarySheet.rows :
            /\ Creation(primarySheet'.rows[i]) = Creation(primarySheet.rows[i])
            /\ primarySheet.rows[i].voteCount \in Nat
            /\ primarySheet'.rows[i].voteCount \in Nat
            /\ primarySheet'.rows[i].voteCount >= primarySheet.rows[i].voteCount]_vars

-----------------------------------------------------------------------------

(* Claims about the rows generateDrink writes (Spec) *)

DrinkIds(rows) == {rows[i].drinkId : i \in DOMAIN rows}

NoSharedDrinkId ==
    \A i \in DOMAIN primarySheet.rows, j \in DOMAIN primarySheet.rows :
        primarySheet.rows[i].drinkId = primarySheet.rows[j].drinkId => i = j


\* the identifiers that the requests in progress other than that of runner r
\* have taken and not yet written
TakenByOthers(r) ==
    {procs.requests[s].locals.drinkId :
        s \in {t \in Runners \ {r} : procs.requests[t].pc = "persistAppend"}}

\* line 455: the request of runner r takes an identifier that no earlier
\* call was given, that no row carries and that no other request holds; no
\* row is written
TakesFreshId(r) ==
    /\ After(r).pc = "persistAppend"
    /\ After(r).locals.drinkId \notin uuids
    /\ After(r).locals.drinkId \notin DrinkIds(primarySheet.rows)
    /\ After(r).locals.drinkId \notin TakenByOthers(r)
    /\ uuids' = uuids \cup {After(r).locals.drinkId}
    /\ primarySheet' = primarySheet

\* lines 460-489: the request of runner r appends one row, which carries the
\* identifier it took and vote count 0, and returns the record of that row
AppendsItsRow(r) ==
    LET before == primarySheet.rows
        after == primarySheet'.rows
        row == after[Len(after)]
    IN /\ Len(after) = Len(before) + 1
       /\ SubSeq(after, 1, Len(before)) = before
       /\ row.drinkId = Before(r).locals.drinkId
       /\ row.drinkId \notin DrinkIds(before)
       /\ row.voteCount = 0
       /\ uuids' = uuids
       /\ After(r).pc = "ended"
       /\ After(r).trace.result.ok
       /\ After(r).trace.result.value.drinkId = row.drinkId
       /\ After(r).trace.result.value.voteCount = 0

\* C21: a generateDrink succeeds only with its appendRow, which follows the
\* call that gave it an identifier no earlier call was given; that appendRow
\* adds exactly one row to GeneratedDrinks, with that identifier and vote
\* count 0, and the request returns a record with that identifier and
\* voteCount 0; no other call of a generateDrink adds a row or takes an
\* identifier; at no time do two rows of GeneratedDrinks share an identifier.
C21_OneFreshRowPerDrink ==
    /\ []NoSharedDrinkId
    /\ [][\A r \in Runners :
            (Steps(r) /\ Before(r).op = "generateDrink") =>
                CASE Before(r).pc = "persistUuid" -> TakesFreshId(r)
                  [] Before(r).pc = "persistAppend" -> AppendsItsRow(r)
                  [] OTHER ->
                        /\ ~(After(r).pc = "ended" /\ After(r).trace.result.ok)
                        /\ DrinkIds(primarySheet'.rows) \subseteq DrinkIds(primarySheet.rows)
                        /\ Len(primarySheet'.rows) <= Len(primarySheet.rows)
                        /\ uuids' = uuids]_vars

\* a second drink was generated after a vote for the first
C21_Witness ==
    /\ Quiet
    /\ last.op = "generateDrink"
    /\ last.result.ok
    /\ last.result.value.drinkId = "drink-2"
    /\ Len(primarySheet.rows) = 2
    /\ primarySheet.rows[1].voteCount = 1
    /\ primarySheet.rows[2].voteCount = 0
    /\ primarySheet.rows[1].drinkId # primarySheet.rows[2].drinkId

-----------------------------------------------------------------------------
(* Claims about the VoteAudit sheet (Spec) *)

AuditRowsKept ==
    /\ Len(votesSheet'.rows) >= Len(votesSheet.rows)
    /\ SubSeq(votesSheet'.rows, 1, Len(votesSheet.rows)) = votesSheet.rows

\* C22, as stated: across every call of every request, the audit rows written
\* so far stay in VoteAudit, unchanged and at the same position.
C22_AsStated == [][AuditRowsKept]_vars

-----------------------------------------------------------------------------

(* SpecEnsure: ensureSpreadsheetStructure_ called up to twice, the second call
   once the first has returned, on a storage spreadsheet in which each sheet
   is absent, fresh, filled, or was made or edited by hand, by a script that
   is bound to the spreadsheet, holds its identifier, or has none yet. The
   call takes the steps every handler takes through it. *)

DrinkRow(drinkId, votes) ==
    [drinkId |-> drinkId, timestamp |-> Epoch, generatorKey |-> "astro",
     generatorLabel |-> "Astrological Elixir", firstName |-> "Ada",
     lastName |-> "Lovelace", birthMonth |-> 6, birthDay |-> 1, birthYear |-> 1990,
     reason |-> "r", drinkName |-> "n", ingredients |-> Str("gin"),
     instructions |-> Str("stir"),
     compatibility |-> "c", voteCount |-> votes]

Filled(headers, rows) == [exists |-> TRUE, header |-> headers, rows |-> rows]

PrimarySheets ==
    {NoSheet, NewSheet(PrimaryHeaders), insertSheet,
     NewSheet([PrimaryHeaders EXCEPT ![1] = "Id"]),
     Filled(PrimaryHeaders, <<DrinkRow("drink-1", 0)>>),
     Filled(PrimaryHeaders, <<DrinkRow("drink-1", 2), DrinkRow("drink-2", 0)>>),
     Filled(<<>>, <<DrinkRow("drink-1", 1)>>)}

VotesSheets ==
    {NoSheet, NewSheet(VotesHeaders), insertSheet,
     NewSheet([VotesHeaders EXCEPT ![5] = "What"]),
     Filled(VotesHeaders, <<AuditRow(Epoch, "drink-1", 0, 1)>>),
     Filled(VotesHeaders, <<AuditRow(Epoch, "drink-1", 0, 1),
                            AuditRow(Epoch, "drink-1", 1, 2)>>)}

EnsurePlatforms ==
    {NoKey, Standalone(NoKey, "stored"), Standalone(NoKey, "none"), PropertiesThrow,
     Standalone(PropertiesThrow, "none")}

MaxEnsures == 2

InitEnsure ==
    /\ primarySheet \in PrimarySheets
    /\ votesSheet \in VotesSheets
    /\ uuids = {}
    /\ today = Epoch
    /\ last = NoRun
    /\ procs = [requests |-> [r \in SerialRunners |-> NoRequest], admitted |-> 0]
    /\ caches = <<>>
    /\ \E properties \in EnsurePlatforms :
        arg = [fn |-> "ensureSpreadsheetStructure_", store |-> Store,
               properties |-> properties]
    /\ out = <<>>


\* one call begins; out keeps what each call left behind, and a later call
\* runs on the platform the one before it left
EnsureCall(r) ==
    /\ arg.fn = "ensureSpreadsheetStructure_"
    /\ Len(out) < MaxEnsures
    /\ Invoke(r, {Invocation("ensureSpreadsheetStructure_", <<>>,
                             IF out = <<>> THEN arg.properties
                             ELSE out[Len(out)].properties)})

NextEnsure ==
    \E r \in SerialRunners :
        \/ EnsureCall(r)
        \/ EnsureStorage(r)
        \/ EnsureInsert(r)
        \/ EnsureHeaders(r)
        \/ EnsureVotes(r)

SpecEnsure == InitEnsure /\ [][NextEnsure]_vars

Ensured(n) == arg.fn = "ensureSpreadsheetStructure_" /\ Len(out) >= n

\* what the call owes a sheet: left as it is when present, made with its
\* header row and no data row when absent
EnsuredSheet(before, after, headers) ==
    IF before.exists THEN after = before
    ELSE after = [exists |-> TRUE, header |-> headers, rows |-> <<>>]

\* the storage spreadsheet the first call works on: the one the script is
\* bound to or holds the identifier of, and an empty new one otherwise
Storage ==
    IF arg.properties.spreadsheet = "none"
    THEN [primary |-> NoSheet, votes |-> NoSheet]
    ELSE arg.store

\* C23: ensureSpreadsheetStructure_ makes each of the two sheets, with its
\* fixed header row, only when the sheet is absent; on a store that holds
\* both sheets it changes nothing, whatever their headers and rows; and a
\* second call in sequence leaves the store the first call left. A call that
\* throws because the property store is out of reach makes nothing.
C23_EnsureIdempotent ==
    /\ Ensured(1) =>
        /\ IF arg.properties.kind = "throws"
           THEN out[1].result = Throw(ErrPropertyStore) /\ out[1].store = arg.store
           ELSE /\ out[1].result.ok
                /\ EnsuredSheet(Storage.primary, out[1].store.primary, PrimaryHeaders)
                /\ EnsuredSheet(Storage.votes, out[1].store.votes, VotesHeaders)
                /\ (Storage.primary.exists /\ Storage.votes.exists)
                      => out[1].store = Storage
        /\ Store = out[Len(out)].store
    /\ Ensured(2) => out[2].store = out[1].store /\ out[2].result = out[1].result

\* the primary sheet was absent and the audit sheet held two rows: the first
\* call made the one and kept the other, the second changed nothing
C23_Witness ==
    /\ Ensured(2)
    /\ arg.properties = NoKey
    /\ arg.store.primary = NoSheet
    /\ Len(arg.store.votes.rows) = 2
    /\ primarySheet = [exists |-> TRUE, header |-> PrimaryHeaders, rows |-> <<>>]
    /\ votesSheet = arg.store.votes
    /\ out[2] = out[1]

-----------------------------------------------------------------------------
(* The service worker (src/cockTailPicker/service-worker.js). caches is the
   CacheStorage of the origin: the caches in the order of their creation,
   each [name, entries] with entries a function from request URL to the
   response stored for it. A response is [status, type, body]. *)

CACHE_NAME == "mythic-mixology-v1"
PRECACHE_URLS == <<"./", "Index.html", "manifest.json">>

Response(status, type, body) == [status |-> status, type |-> type, body |-> body]

\* what respondWith is handed when there is no response
NoResponse == Response(0, "none", "")

NoEntries == [url \in {} |-> NoResponse]

\* caches.keys()
keys(storage) == [i \in DOMAIN storage |-> storage[i].name]

has(storage, name) == \E i \in DOMAIN storage : storage[i].name = name

\* caches.open(name): the cache is made when there is none of that name
open(storage, name) ==
    IF has(storage, name) THEN storage
    ELSE Append(storage, [name |-> name, entries |-> NoEntries])

\* cache.put(request, response) on the cache called name
put(storage, name, url, response) ==
    [i \in DOMAIN storage |->
        IF storage[i].name = name
        THEN [storage[i] EXCEPT !.entries =
                [u \in DOMAIN @ \cup {url} |-> IF u = url THEN response ELSE @[u]]]
        ELSE storage[i]]

\* caches.delete(key)
delete(storage, key) == SelectSeq(storage, LAMBDA cache : cache.name # key)

\* caches.match(request): the response of the first cache, in order of
\* creation, that holds the URL; [found |-> FALSE] stands for undefined
match(storage, url) ==
    LET holders == {i \in DOMAIN storage : url \in DOMAIN storage[i].entries}
    IN IF holders = {} THEN [found |-> FALSE]
       ELSE [found |-> TRUE,
             response |-> storage[CHOOSE i \in holders : \A j \in holders : i <= j].entries[url]]

\* line 31 with every key taken for outdated
OutdatedAlways(key) == TRUE

\* line 31: key !== CACHE_NAME
Outdated(key) == key # CACHE_NAME

\* line 60 with the status test alone
CacheableByStatus(response) == response.status = 200

\* line 60: a response that is stored
Cacheable(response) == response.status = 200 /\ response.type = "basic"

SelfOrigin == "https://lab.example"

Request(method, origin, url, mode) ==
    [method |-> method, origin |-> origin, url |-> url, mode |-> mode]

\* lines 43-50: the requests the handler answers itself
Intercepted(request) == request.method = "GET" /\ request.origin = SelfOrigin

-----------------------------------------------------------------------------
(* SpecWorker: the worker is installed and activated over the caches it
   finds, then answers fetch events; the steps of the handlers in flight
   interleave as their promises settle *)

MaxFetches == 2

Fetches == 1..MaxFetches

OldCache == [name |-> "mythic-mixology-v0",
             entries |-> [url \in {"Index.html"} |-> Response(200, "basic", "old page")]]
OtherCache == [name |-> "fonts", entries |-> NoEntries]
CurrentCache == [name |-> CACHE_NAME,
                 entries |-> [url \in {"app.js"} |-> Response(200, "basic", "kept script")]]

\* the caches of the origin when the worker is installed
FoundCaches ==
    {<<>>, <<OldCache>>, <<OldCache, OtherCache>>, <<OldCache, CurrentCache, OtherCache>>}

Precached == Response(200, "basic", "precached")

FetchEvents ==
    {Request("GET", SelfOrigin, "Index.html", "navigate"),
     Request("GET", SelfOrigin, "app.js", "no-cors"),
     Request("GET", SelfOrigin, "offline.html", "navigate"),
     Request("POST", SelfOrigin, "app.js", "cors"),
     Request("GET", "https://cdn.example", "app.js", "no-cors")}

\* what the network answers; "rejects" is a fetch whose promise rejects
NetworkAnswers ==
    {[kind |-> "rejects"],
     [kind |-> "response", response |-> Response(200, "basic", "fresh")],
     [kind |-> "response", response |-> Response(404, "basic", "not found")],
     [kind |-> "response", response |-> Response(200, "cors", "redirected")]}

\* a run of the fetch handler: where its promise chain stands (pc), the
\* request, whether caches.match found a response (hit), whether the network
\* was called (fetched), the response at hand, and where the write to the
\* cache stands, which goes on after the response is returned: "none" when
\* no write was started, "opening" while caches.open is pending, "putting"
\* while cache.put is, then "stored", "openRejected" or "putRejected"
IdleFetch ==
    [pc |-> "idle", request |-> Request("", "", "", ""), hit |-> FALSE, fetched |-> FALSE,
     response |-> NoResponse, cache |-> "none"]

InitWorker ==
    /\ primarySheet = NoSheet
    /\ votesSheet = NoSheet
    /\ uuids = {}
    /\ today = Epoch
    /\ last = NoRun
    /\ caches \in FoundCaches
    /\ procs = [activate |-> [pc |-> "parsed", found |-> <<>>, pending |-> {}],
                fetch |-> [f \in Fetches |-> IdleFetch]]
    /\ arg = Idle
    /\ out = Idle

WorkerUnchanged == UNCHANGED <<primarySheet, votesSheet, uuids, today, last, arg, out>>

\* cache.addAll(PRECACHE_URLS) once every asset was fetched
addAll(storage, name, urls) ==
    [i \in DOMAIN storage |->
        IF storage[i].name = name
        THEN [storage[i] EXCEPT !.entries =
                [u \in DOMAIN @ \cup {urls[j] : j \in DOMAIN urls} |->
                    IF \E j \in DOMAIN urls : urls[j] = u THEN Precached ELSE @[u]]]
        ELSE storage[i]]

\* lines 8-23: open the cache and precache; a failure is caught and logged
Install ==
    /\ procs.activate.pc = "parsed"
    /\ \E outcome \in {"precached", "addAllFails", "openFails"} :
        caches' = CASE outcome = "precached" ->
                         addAll(open(caches, CACHE_NAME), CACHE_NAME, PRECACHE_URLS)
                    [] outcome = "addAllFails" -> open(caches, CACHE_NAME)
                    [] outcome = "openFails" -> caches
    /\ procs' = [procs EXCEPT !.activate.pc = "installed"]
    /\ WorkerUnchanged

\* lines 28-36: caches.keys() settles and a delete is issued for every
\* outdated key
ActivateKeys ==
    /\ procs.activate.pc = "installed"
    /\ procs' = [procs EXCEPT !.activate =
            [pc |-> "deleting", found |-> caches,
             pending |-> {key \in {keys(caches)[i] : i \in DOMAIN caches} : Outdated(key)}]]
    /\ UNCHANGED caches
    /\ WorkerUnchanged

\* one caches.delete(key) settles
ActivateDelete(key) ==
    /\ key \in procs.activate.pending
    /\ caches' = delete(caches, key)
    /\ procs' = [procs EXCEPT !.activate.pending = @ \ {key}]
    /\ WorkerUnchanged

\* one caches.delete(key) rejects: Promise.all rejects with it
ActivateDeleteFails(key) ==
    /\ key \in procs.activate.pending
    /\ procs' = [procs EXCEPT !.activate.pending = @ \ {key}, !.activate.pc = "failed"]
    /\ UNCHANGED caches
    /\ WorkerUnchanged

\* Promise.all fulfils: the handler completes
ActivateDone ==
    /\ procs.activate.pc = "deleting"
    /\ procs.activate.pending = {}
    /\ procs' = [procs EXCEPT !.activate.pc = "done"]
    /\ UNCHANGED caches
    /\ WorkerUnchanged

\* fetch events reach the worker once it is activated
Activated == procs.activate.pc \in {"done", "failed"}

\* lines 42-52: the tests that leave the request to the browser
FetchEvent(f, request) ==
    /\ Activated
    /\ procs.fetch[f].pc = "idle"
    /\ procs' = [procs EXCEPT !.fetch[f] =
            [@ EXCEPT !.request = request,
                      !.pc = IF Intercepted(request) THEN "matching" ELSE "passed"]]
    /\ UNCHANGED caches
    /\ WorkerUnchanged

\* lines 53-56: caches.match settles
FetchMatch(f) ==
    /\ procs.fetch[f].pc = "matching"
    /\ \E cachedResponse \in {match(caches, procs.fetch[f].request.url)} :
        procs' = [procs EXCEPT !.fetch[f] =
            IF cachedResponse.found
            THEN [@ EXCEPT !.pc = "responded", !.hit = TRUE,
                           !.response = cachedResponse.response]
            ELSE [@ EXCEPT !.pc = "fetching"]]
    /\ UNCHANGED caches
    /\ WorkerUnchanged

\* lines 58-64 and 74-85: fetch settles; for a response to store,
\* caches.open is called and the response returned
FetchNetwork(f, answer) ==
    /\ procs.fetch[f].pc = "fetching"
    /\ procs' = [procs EXCEPT !.fetch[f] =
            IF answer.kind = "rejects"
            THEN [@ EXCEPT !.fetched = TRUE,
                           !.pc = IF procs.fetch[f].request.mode = "navigate"
                                  THEN "fallback" ELSE "failed"]
            ELSE [@ EXCEPT !.fetched = TRUE, !.pc = "responded",
                           !.response = answer.response,
                           !.cache = IF Cacheable(answer.response)
                                     THEN "opening" ELSE "none"]]
    /\ UNCHANGED caches
    /\ WorkerUnchanged


\* line 65: caches.open(CACHE_NAME) fulfils, making the cache when there is
\* none of that name, and cache.put is called
FetchOpen(f) ==
    /\ procs.fetch[f].cache = "opening"
    /\ caches' = open(caches, CACHE_NAME)
    /\ procs' = [procs EXCEPT !.fetch[f].cache = "putting"]
    /\ WorkerUnchanged

\* line 65: caches.open(CACHE_NAME) rejects; no handler is attached to that
\* promise, so nothing is stored and nothing is logged
FetchOpenFails(f) ==
    /\ procs.fetch[f].cache = "opening"
    /\ procs' = [procs EXCEPT !.fetch[f].cache = "openRejected"]
    /\ UNCHANGED caches
    /\ WorkerUnchanged

\* line 66: cache.put(event.request, responseClone) fulfils
FetchPut(f) ==
    /\ procs.fetch[f].cache = "putting"
    /\ caches' = put(caches, CACHE_NAME, procs.fetch[f].request.url, procs.fetch[f].response)
    /\ procs' = [procs EXCEPT !.fetch[f].cache = "stored"]
    /\ WorkerUnchanged

\* lines 66-71: cache.put rejects and the failure is logged
FetchPutFails(f) ==
    /\ procs.fetch[f].cache = "putting"
    /\ procs' = [procs EXCEPT !.fetch[f].cache = "putRejected"]
    /\ UNCHANGED caches
    /\ WorkerUnchanged

\* lines 81-83: caches.match('Index.html') for a navigation that failed
FetchFallback(f) ==
    /\ procs.fetch[f].pc = "fallback"
    /\ \E page \in {match(caches, "Index.html")} :
        procs' = [procs EXCEPT !.fetch[f] =
            [@ EXCEPT !.pc = "responded",
                      !.response = IF page.found THEN page.response ELSE NoResponse]]
    /\ UNCHANGED caches
    /\ WorkerUnchanged

NextWorker ==
    \/ Install
    \/ ActivateKeys
    \/ \E key \in {OldCache.name, OtherCache.name, CACHE_NAME} :
        ActivateDelete(key) \/ ActivateDeleteFails(key)
    \/ ActivateDone
    \/ \E f \in Fetches :
        \/ \E request \in FetchEvents : FetchEvent(f, request)
        \/ FetchMatch(f)
        \/ \E answer \in NetworkAnswers : FetchNetwork(f, answer)
        \/ FetchOpen(f)
        \/ FetchOpenFails(f)
        \/ FetchPut(f)
        \/ FetchPutFails(f)
        \/ FetchFallback(f)

SpecWorker == InitWorker /\ [][NextWorker]_vars

-----------------------------------------------------------------------------
(* Claims about the service worker (SpecWorker) *)

Names(storage) == {storage[i].name : i \in DOMAIN storage}

CacheCalled(storage, name) == storage[CHOOSE i \in DOMAIN storage : storage[i].name = name]

ActivateCompleted == procs.activate.pc = "done"

\* C24: once the activate handler has completed (the promise handed to
\* waitUntil fulfilled), no cache found under a name other than CACHE_NAME
\* is left, no cache of another name exists, and the cache called
\* CACHE_NAME, when the handler found one, is still there with the entries
\* it held.
C24_ActivatePurgesOthers ==
    ActivateCompleted =>
        /\ \A key \in Names(procs.activate.found) : key # CACHE_NAME => ~has(caches, key)
        /\ Names(caches) \subseteq {CACHE_NAME}
        /\ has(procs.activate.found, CACHE_NAME) =>
            /\ has(caches, CACHE_NAME)
            /\ \A url \in DOMAIN CacheCalled(procs.activate.found, CACHE_NAME).entries :
                /\ url \in DOMAIN CacheCalled(caches, CACHE_NAME).entries
                /\ CacheCalled(caches, CACHE_NAME).entries[url] =
                       CacheCalled(procs.activate.found, CACHE_NAME).entries[url]

\* the handler found the old cache, the current one with its precached
\* assets and a third, purged the two others and completed
C24_Witness ==
    /\ ActivateCompleted
    /\ keys(procs.activate.found) = <<OldCache.name, CACHE_NAME, OtherCache.name>>
    /\ keys(caches) = <<CACHE_NAME>>
    /\ caches[1].entries["app.js"] = Response(200, "basic", "kept script")
    /\ caches[1].entries["Index.html"] = Precached
    /\ \A f \in Fetches : procs.fetch[f].pc = "idle"

SameOriginGet(request) == request.method = "GET" /\ request.origin = SelfOrigin


\* what a handler run has done, read off its record: a request that is no
\* same-origin GET is passed on untouched; a hit goes with no network call
\* and no write; a write is started only for a fetched response with status
\* 200 and type basic
FetchRecordSound(r) ==
    /\ r.pc = "passed" <=> ~SameOriginGet(r.request)
    /\ r.pc = "passed" =>
        ~r.hit /\ ~r.fetched /\ r.cache = "none" /\ r.response = NoResponse
    /\ r.hit => ~r.fetched /\ r.cache = "none"
    /\ r.cache # "none" =>
        /\ r.fetched
        /\ r.response.status = 200
        /\ r.response.type = "basic"

\* the step of handler f that reads the caches settles hit or miss
MatchDecides(f) ==
    LET r == procs.fetch[f]
        after == procs'.fetch[f]
        cached == match(caches, r.request.url)
    IN /\ (r.pc = "matching" /\ after.pc # "matching") =>
            IF cached.found
            THEN after.pc = "responded" /\ after.hit /\ after.response = cached.response
            ELSE after.pc = "fetching" /\ ~after.hit
       /\ (after.fetched /\ ~r.fetched) => r.pc = "fetching"


\* the entries of the cache called name; none when there is no such cache
EntriesOf(storage, name) ==
    IF has(storage, name) THEN CacheCalled(storage, name).entries ELSE NoEntries

\* Once the worker is activated, a step that changes the caches removes
\* nothing and leaves every cache of another name as it is; the one cache it
\* may make is CACHE_NAME; and every entry it writes is a response with
\* status 200 and type basic that a handler serving a same-origin GET for
\* that URL fetched after a miss.
WritesAreFetched ==
    (Activated /\ procs.activate.pending = {} /\ caches' # caches) =>
        /\ Names(caches') \subseteq Names(caches) \cup {CACHE_NAME}
        /\ \A i \in DOMAIN caches :
            /\ caches'[i].name = caches[i].name
            /\ caches[i].name # CACHE_NAME => caches'[i] = caches[i]
        /\ LET old == EntriesOf(caches, CACHE_NAME)
               new == EntriesOf(caches', CACHE_NAME)
           IN /\ DOMAIN old \subseteq DOMAIN new
              /\ \A url \in DOMAIN new :
                    (url \notin DOMAIN old \/ new[url] # old[url]) =>
                        /\ new[url].status = 200
                        /\ new[url].type = "basic"
                        /\ \E f \in Fetches :
                            /\ SameOriginGet(procs.fetch[f].request)
                            /\ procs.fetch[f].request.url = url
                            /\ procs.fetch[f].fetched
                            /\ ~procs.fetch[f].hit
                            /\ procs.fetch[f].response = new[url]

\* C25: a fetch event that is not a same-origin GET is left alone (no
\* response, no network call by the worker, no write to a cache); for a
\* same-origin GET a cached match is returned without a network call; the
\* network is called only after a miss; and only a response with status 200
\* and type 'basic' is stored, in CACHE_NAME.
C25_CacheFirst ==
    /\ [](\A f \in Fetches : procs.fetch[f].pc # "idle" => FetchRecordSound(procs.fetch[f]))
    /\ [][(\A f \in Fetches : MatchDecides(f)) /\ WritesAreFetched]_vars

\* one handler missed, fetched and stored the page; the next was served
\* the stored copy without a network call
C25_Witness ==
    /\ procs.fetch[1].request = Request("GET", SelfOrigin, "offline.html", "navigate")
    /\ procs.fetch[1].fetched
    /\ procs.fetch[1].cache = "stored"
    /\ procs.fetch[2].request = procs.fetch[1].request
    /\ procs.fetch[2].pc = "responded"
    /\ procs.fetch[2].hit
    /\ ~procs.fetch[2].fetched
    /\ procs.fetch[2].response = Response(200, "basic", "fresh")
    /\ CacheCalled(caches, CACHE_NAME).entries["offline.html"] = Response(200, "basic", "fresh")

-----------------------------------------------------------------------------
(* Cocktail Picker (src/unnamed/part_001): getCocktailSuggestion *)

SuggestionFull ==
    "{\"name\":\"Negroni\",\"description\":\"Bitter and bright.\",\"ingredients\":[\"gin\",\"vermouth\"],\"preparation\":\"Stir.\",\"garnish\":\"orange\"}"
SuggestionNoGarnish ==
    "{\"name\":\"Negroni\",\"description\":\"Bitter and bright.\",\"ingredients\":[\"gin\"],\"preparation\":\"Stir.\"}"
SuggestionTextIngredients ==
    "{\"name\":\"Negroni\",\"description\":\"Bitter.\",\"ingredients\":\"gin\",\"preparation\":\"Stir.\",\"garnish\":\"orange\"}"
SuggestionList == "[]"
SuggestionFenced == "Here you go: " \o SuggestionFull \o " Enjoy."
SuggestionProse == "A Negroni would suit you."

NegroniRecord ==
    [name |-> Str("Negroni"), description |-> Str("Bitter and bright."),
     ingredients |-> Arr(<<Str("gin"), Str("vermouth")>>), preparation |-> Str("Stir."),
     garnish |-> Str("orange")]

\* the envelope of the completion API around one message content
Envelope(content) ==
    Obj([choices |-> Arr(<<Obj([message |-> Obj([content |-> content])])>>)])

EnvelopeText(contentText) ==
    "{\"choices\":[{\"message\":{\"content\":" \o contentText \o "}}]}"

\* a text as a JSON string literal
RECURSIVE Escaped(_)
Escaped(text) ==
    IF text = "" THEN ""
    ELSE IF Len(text) = 1
    THEN (IF text \in {"\"", "\\"} THEN "\\" ELSE "") \o text
    ELSE Escaped(SubSeq(text, 1, Len(text) \div 2))
         \o Escaped(SubSeq(text, Len(text) \div 2 + 1, Len(text)))

\* the body of a completion whose message content is the given text
BodyOf(content) == EnvelopeText("\"" \o Escaped(content) \o "\"")

BodyObjectSuggestion == EnvelopeText("{\"name\":\"Negroni\"}")

SuggestionContents ==
    {SuggestionFull, SuggestionNoGarnish, SuggestionTextIngredients, SuggestionList,
     SuggestionFenced, SuggestionProse, ContentNull, ContentSeven, ContentEmptyObject}

\* JSON.parse on the documents of this service: <<text, value>>
SuggestionDocuments ==
    << <<SuggestionFull, Obj(NegroniRecord)>>,
       <<SuggestionNoGarnish,
            Obj([name |-> Str("Negroni"), description |-> Str("Bitter and bright."),
                 ingredients |-> Arr(<<Str("gin")>>), preparation |-> Str("Stir.")])>>,
       <<SuggestionTextIngredients,
            Obj([name |-> Str("Negroni"), description |-> Str("Bitter."),
                 ingredients |-> Str("gin"), preparation |-> Str("Stir."),
                 garnish |-> Str("orange")])>>,
       <<SuggestionList, Arr(<<>>)>>,
       <<BodyObjectSuggestion, Envelope(Obj([name |-> Str("Negroni")]))>> >>

\* JSON.parse(text) for this service: the value, or a SyntaxError
parse(text) ==
    LET hits == {i \in DOMAIN SuggestionDocuments : SuggestionDocuments[i][1] = text}
        inner == {c \in SuggestionContents : BodyOf(c) = text}
    IN IF hits # {} THEN Return(SuggestionDocuments[CHOOSE i \in hits : TRUE][2])
       ELSE IF inner # {} THEN Return(Envelope(Str(CHOOSE c \in inner : TRUE)))
       ELSE JSONparse(text)

ErrKeyNotConfigured == "OPENAI_API_KEY is not configured in Script Properties."
ErrUnableToGenerate ==
    "Unable to generate cocktail suggestion at this time. Please verify configuration and try again."
ErrNoValidChoice == "OpenAI response did not include a valid message choice."
ErrSuggestionInvalid == "Suggestion payload is invalid."
ErrMissingKey(key) == "Missing required key in suggestion: " \o key
ErrIngredients == "Ingredients must be provided as an array of strings."
ErrStatusCode(statusCode, responseBody) ==
    "OpenAI API returned an error with status code " \o NatStr(statusCode) \o ": "
        \o responseBody
ErrNotAFunction == "TypeError: not a function"

\* getOpenAIApiKey_: the key, or a throw when the property store fails or
\* holds no key
getOpenAIApiKey_(properties) ==
    IF properties.kind \in {"throws", "keyThrows"} THEN Throw(ErrPropertyStore)
    ELSE IF ~Truthy(properties.value) THEN Throw(ErrKeyNotConfigured)
    ELSE Return(properties.value)

PreferenceFields == {"baseSpirit", "flavorProfile", "additionalNotes"}

\* sanitizePreferences_: (preferences[field] || '').trim() for each field;
\* a truthy value that is no string has no trim
sanitizePreferences_(rawPreferences) ==
    With(Or(rawPreferences, Obj(EmptyFields)), LAMBDA preferences :
        IF \E field \in PreferenceFields :
                Or(Get(preferences, field), Str("")).k # "string"
        THEN Throw(ErrNotAFunction)
        ELSE Return([field \in PreferenceFields |->
                        trim(Or(Get(preferences, field), Str("")).v)]))

buildPrompt_(preferences) ==
    LET line(label, text) == IF text # "" THEN label \o text \o "\n" ELSE ""
    IN "Create a single cocktail recommendation tailored to the following guest preferences. "
       \o "Respond strictly in JSON format with the keys \"name\", \"description\", \"ingredients\" (array of strings), "
       \o "\"preparation\" (concise step-by-step instructions), and \"garnish\"."
       \o "\n\n"
       \o line("Base spirit: ", preferences.baseSpirit)
       \o line("Flavor preferences: ", preferences.flavorProfile)
       \o line("Additional notes: ", preferences.additionalNotes)
       \o "\nEnsure the recipe can be prepared by an enthusiastic home bartender. Use metric measurements where sensible."

RequiredKeys == <<"name", "description", "ingredients", "preparation", "garnish">>

\* key in suggestion
In(key, suggestion) == suggestion.k = "object" /\ key \in DOMAIN suggestion.v

\* validateSuggestion_: returns undefined or throws
validateSuggestion_(suggestion) ==
    IF ~Truthy(suggestion) \/ suggestion.k \notin {"object", "array"}
    THEN Throw(ErrSuggestionInvalid)
    ELSE IF \E i \in DOMAIN RequiredKeys : ~In(RequiredKeys[i], suggestion)
    THEN Throw(ErrMissingKey(
            RequiredKeys[CHOOSE i \in DOMAIN RequiredKeys :
                /\ ~In(RequiredKeys[i], suggestion)
                /\ \A j \in 1..(i - 1) : In(RequiredKeys[j], suggestion)]))
    ELSE IF ~isArray(Get(suggestion, "ingredients")) THEN Throw(ErrIngredients)
    ELSE Return(Undefined)

\* content.replace(/^[^\{]*\{/s, '{').replace(/\}[^\}]*$/s, '}'): what is
\* before the first brace and after the last one is cut off
Cleaned(content) ==
    LET opens == {i \in 1..Len(content) : SubSeq(content, i, i) = "{"}
        from == IF opens = {} THEN 1 ELSE CHOOSE i \in opens : \A j \in opens : i <= j
        tail == SubSeq(content, from, Len(content))
        closes == {i \in 1..Len(tail) : SubSeq(tail, i, i) = "}"}
        to == IF closes = {} THEN Len(tail) ELSE CHOOSE i \in closes : \A j \in closes : i >= j
    IN SubSeq(tail, 1, to)

\* parseStructuredTextFallback_: a content that is no string has no replace
parseStructuredTextFallback_(content) ==
    IF content.k # "string" THEN Throw(ErrNotAFunction) ELSE parse(Cleaned(content.v))

\* extractCocktailFromResponse_
extractCocktailFromResponse_(responseBody) ==
    With(parse(responseBody), LAMBDA parsed :
        IF ~parsed.ok THEN parsed
        ELSE IF IsNullish(parsed.value) THEN Throw(ErrTypeError)
        ELSE With(And(Get(parsed.value, "choices"), First(Get(parsed.value, "choices"))),
                  LAMBDA choice :
             IF ~Truthy(choice) \/ ~Truthy(Get(choice, "message"))
                    \/ ~Truthy(Get(Get(choice, "message"), "content"))
             THEN Throw(ErrNoValidChoice)
             ELSE With(Get(Get(choice, "message"), "content"), LAMBDA content :
                  With(parse(String(content)), LAMBDA direct :
                  With(IF direct.ok THEN direct ELSE parseStructuredTextFallback_(content),
                       LAMBDA suggestion :
                      IF ~suggestion.ok THEN suggestion
                      ELSE IF ~validateSuggestion_(suggestion.value).ok
                      THEN validateSuggestion_(suggestion.value)
                      ELSE suggestion)))))

\* lines 74-92: the fetch and what follows, inside the try
Suggest(response) ==
    IF response.kind = "throws" THEN Throw(ErrFetch)
    ELSE IF response.status < 200 \/ response.status >= 300
    THEN Throw(ErrStatusCode(response.status, response.body))
    ELSE extractCocktailFromResponse_(response.body)

\* logVerbose_(message, error): JSON.stringify of an Error, whose properties
\* are not enumerable
SerializedError(message) == "{}"

\* getCocktailSuggestion: [result, fetched, prompt, cause, logged]; cause is
\* the error the catch of line 89 caught and logged what it wrote to the log
getCocktailSuggestion(rawPreferences, properties, response) ==
    With(getOpenAIApiKey_(properties), LAMBDA apiKey :
    With(sanitizePreferences_(rawPreferences), LAMBDA preferences :
        IF ~apiKey.ok
        THEN [result |-> apiKey, fetched |-> FALSE, prompt |-> "", cause |-> "",
              logged |-> ""]
        ELSE IF ~preferences.ok
        THEN [result |-> preferences, fetched |-> FALSE, prompt |-> "", cause |-> "",
              logged |-> ""]
        ELSE With(Suggest(response), LAMBDA suggestion :
            [result |-> IF suggestion.ok THEN suggestion ELSE Throw(ErrUnableToGenerate),
             fetched |-> TRUE,
             prompt |-> buildPrompt_(preferences.value),
             cause |-> IF suggestion.ok THEN "" ELSE suggestion.error,
             logged |-> IF suggestion.ok THEN "" ELSE SerializedError(suggestion.error)])))

-----------------------------------------------------------------------------
(* SpecSuggest: getCocktailSuggestion on every kind of preferences, property
   store and answer of the completion API *)

RawPreferences ==
    {Undefined, Null, Obj(EmptyFields),
     Obj([baseSpirit |-> Str(" gin "), flavorProfile |-> Str("bitter"),
          additionalNotes |-> Str("")]),
     Obj([baseSpirit |-> Num(5)]),
     Obj([baseSpirit |-> Str("rum"), additionalNotes |-> Arr(<<Str("no ice")>>)])}

SuggestProperties ==
    {PropertiesThrow, NoKey, Property(Str("")), Property(Str("sk-test"))}

SuggestBodies ==
    {BodyOf(content) : content \in SuggestionContents}
    \cup {BodyObjectSuggestion, BodyNumberContent, BodyBlankContent, BodyNoMessage,
          BodyNullChoice, BodyNoChoiceEntries, BodyChoicesText, BodyError, BodyNull,
          BodyHtml, BodyBlank}

SuggestResponses ==
    {FetchThrows}
    \cup {Http(200, body) : body \in SuggestBodies}
    \cup {Http(status, BodyOf(SuggestionFull)) : status \in {199, 299, 300, 401, 500}}

InitSuggest ==
    /\ StoreIdle
    /\ today = Epoch
    /\ arg \in [fn : {"getCocktailSuggestion"}, rawPreferences : RawPreferences,
                 properties : SuggestProperties, response : SuggestResponses]
    /\ out = Idle

ApplySuggest ==
    /\ arg.fn = "getCocktailSuggestion"
    /\ ~out.done
    /\ out' = Done(getCocktailSuggestion(arg.rawPreferences, arg.properties, arg.response))
    /\ UNCHANGED <<caches, primarySheet, votesSheet, uuids, today, last, procs, arg>>

NextSuggest == ApplySuggest

SpecSuggest == InitSuggest /\ [][NextSuggest]_vars

-----------------------------------------------------------------------------
(* Claims about getCocktailSuggestion (SpecSuggest) *)

Suggested == arg.fn = "getCocktailSuggestion" /\ out.done

\* C26: every failure of getCocktailSuggestion that reaches the caller, a
\* missing API key included, carries the generic message only.
C26_GenericFailureOnly ==
    (Suggested /\ ~out.r.result.ok) => out.r.result.error = ErrUnableToGenerate

\* the failures raised once the request is under way are caught and replaced
\* by the generic message
CaughtFailuresGeneric ==
    (Suggested /\ out.r.fetched /\ ~out.r.result.ok) =>
        /\ out.r.result.error = ErrUnableToGenerate
        /\ out.r.cause \notin {"", ErrUnableToGenerate}

-----------------------------------------------------------------------------
(* Claims about votes and their audit trail (SpecSerial, SpecAudit) *)

\* the audit rows of a drink, in the order they were written
AuditsOf(drinkId) == SelectSeq(votesSheet.rows, LAMBDA row : row.drinkId = drinkId)

VotesMatchAudit ==
    /\ \A i \in DOMAIN primarySheet.rows :
        LET audits == AuditsOf(primarySheet.rows[i].drinkId)
        IN /\ primarySheet.rows[i].voteCount = Len(audits)
           /\ \A k \in DOMAIN audits :
                audits[k].previousVotes = k - 1 /\ audits[k].newVotes = k
    /\ \A j \in DOMAIN votesSheet.rows :
        votesSheet.rows[j].drinkId \in DrinkIds(primarySheet.rows)

\* C27, as stated: when requests run one at a time and every call succeeds,
\* in each reachable state each drink's vote count is the number of
\* VoteAudit rows that name it, and the k-th of those rows records previous
\* votes k-1 and new votes k.
C27_AsStated == VotesMatchAudit

\* the votes for a drink that are written to its cell and whose audit row is
\* yet to be appended: registerVote is between its setValue (line 339) and
\* its appendRow (line 343)
Unaudited(drinkId) ==
    Cardinality({r \in Runners :
                    /\ procs.requests[r].pc = "voteAudit"
                    /\ procs.requests[r].op = "registerVote"
                    /\ procs.requests[r].input.drinkId = Str(drinkId)})

\* C27 amended: when requests run one at a time and every call succeeds, in
\* each reachable state each drink's vote count is the number of VoteAudit
\* rows that name it, plus 1 while a registerVote for that drink has set the
\* count and not yet appended its audit row; the k-th audit row of a drink
\* records previous votes k-1 and new votes k; no audit row names an
\* identifier that is not a drink's.
C27_VotesMatchAudit ==
    /\ \A i \in DOMAIN primarySheet.rows :
        LET audits == AuditsOf(primarySheet.rows[i].drinkId)
        IN /\ primarySheet.rows[i].voteCount
                 = Len(audits) + Unaudited(primarySheet.rows[i].drinkId)
           /\ \A k \in DOMAIN audits :
                audits[k].previousVotes = k - 1 /\ audits[k].newVotes = k
    /\ \A j \in DOMAIN votesSheet.rows :
        votesSheet.rows[j].drinkId \in DrinkIds(primarySheet.rows)
    /\ Quiet => VotesMatchAudit

\* the second vote for the first drink is in its cell and its audit row is
\* not yet written
C27_Witness ==
    /\ procs.requests[1].pc = "voteAudit"
    /\ procs.requests[1].op = "registerVote"
    /\ procs.requests[1].input.drinkId = Str("drink-1")
    /\ primarySheet.rows[1].drinkId = "drink-1"
    /\ primarySheet.rows[1].voteCount = 2
    /\ votesSheet.rows = <<AuditRow(Epoch, "drink-1", 0, 1)>>

-----------------------------------------------------------------------------

(* SpecAudit: one runner serves the requests over a store that holds two
   drinks, and the audit write of a vote may fail: the appendRow of line 343
   throws, or the VoteAudit sheet is removed by hand while the vote is
   between its two writes *)

AuditOutcomes == {"appends", "throws"}

MaxCount == 2

InitAudit ==
    /\ \E seeded \in {SeededRun} :
        /\ primarySheet = seeded.store.primary
        /\ votesSheet = seeded.store.votes
        /\ uuids = seeded.uuids
    /\ today = Epoch
    /\ last = NoRun
    /\ procs = [requests |-> [r \in SerialRunners |-> NoRequest], admitted |-> 0]
    /\ caches = <<>>
    /\ arg = Idle
    /\ out = Idle

RegisterVoteUnder(r) ==
    /\ \A i \in DOMAIN primarySheet.rows : primarySheet.rows[i].voteCount < MaxCount
    /\ Invoke(r, {VoteRequest(drinkId, NoKey, audit) :
                    drinkId \in VoteArguments(SpecVoteIds), audit \in AuditOutcomes})

\* the owner of the spreadsheet deletes the VoteAudit sheet
RemoveVotesSheet ==
    /\ votesSheet.exists
    /\ \E r \in Runners : procs.requests[r].pc = "voteAudit"
    /\ votesSheet' = NoSheet
    /\ UNCHANGED <<caches, primarySheet, uuids, today, last, procs, arg, out>>

NextAudit ==
    \/ RemoveVotesSheet
    \/ \E r \in SerialRunners :
        \/ RegisterVoteUnder(r)
        \/ SerialGetStoredDrinks(r)
        \/ EnsureStorage(r)
        \/ EnsureInsert(r)
        \/ EnsureHeaders(r)
        \/ EnsureVotes(r)
        \/ StoredLastRow(r)
        \/ StoredGetValues(r)
        \/ VoteLastRow(r)
        \/ VoteGetValues(r)
        \/ VoteSetValue(r)
        \/ VoteAppendRow(r)

SpecAudit == InitAudit /\ [][NextAudit]_vars

\* the audit write of the registerVote of runner r fails
AuditWriteFails(r) ==
    /\ StepsAt(r, "voteAudit")
    /\ ~After(r).trace.result.ok

\* C28: when the audit write of a registerVote fails (the VoteAudit sheet is
\* missing or appendRow throws), the call fails with that error and writes
\* nothing: the drink's vote count stays at the count the request read plus
\* 1, which it wrote before, and no audit row goes with it.
C28_VoteKeptWithoutAudit ==
    [][\A r \in Runners :
          AuditWriteFails(r) =>
              LET locals == Before(r).locals
                  row == primarySheet'.rows[locals.updatedRowIndex - HeaderRows(primarySheet)]
              IN /\ After(r).pc = "ended"
                 /\ After(r).trace.result \in {Throw(ErrVotesMissing), Throw(ErrAppendFailed)}
                 /\ primarySheet' = primarySheet
                 /\ votesSheet' = votesSheet
                 /\ row.drinkId = Before(r).input.drinkId.v
                 /\ row.voteCount = locals.currentVotes + 1
                 /\ Len(AuditsOf(row.drinkId)) < row.voteCount]_vars

\* a vote was counted and its audit row is not there
C28_Witness ==
    /\ Quiet
    /\ last.op = "registerVote"
    /\ last.audit = "throws"
    /\ ~last.result.ok
    /\ last.result.error = ErrAppendFailed
    /\ primarySheet.rows[1].voteCount = 1
    /\ primarySheet.rows[2].voteCount = 0
    /\ votesSheet.exists
    /\ votesSheet.rows = <<>>
    /\ ~VotesMatchAudit

-----------------------------------------------------------------------------
(* Claims about generateDrink on a payload that fails validation (Spec) *)

\* a call of a generateDrink whose payload violates a constraint of the request
InvalidGenerate(r) ==
    /\ Steps(r)
    /\ Before(r).op = "generateDrink"
    /\ ViolatedMessages(Before(r).input.payload, today.y) # {}

\* C29: a generateDrink whose payload fails validation adds no row to
\* GeneratedDrinks or VoteAudit with any of its calls, and once the
\* structure check is through it fails without a write, takes no identifier,
\* and ends before the API key is read and before any request to the
\* completion API.
C29_InvalidWritesNothing ==
    [][\A r \in Runners :
          InvalidGenerate(r) =>
              /\ DrinkIds(primarySheet'.rows) \subseteq DrinkIds(primarySheet.rows)
              /\ Len(primarySheet'.rows) <= Len(primarySheet.rows)
              /\ Len(votesSheet'.rows) <= Len(votesSheet.rows)
              /\ uuids' = uuids
              /\ Before(r).pc = "generate" =>
                    /\ After(r).pc = "ended"
                    /\ ~After(r).trace.result.ok
                    /\ After(r).trace.result.error
                          \in ViolatedMessages(Before(r).input.payload, today.y)
                               \cup {ErrUnsupportedKey("constructor")}
                    /\ primarySheet' = primarySheet
                    /\ votesSheet' = votesSheet
                    /\ ~After(r).trace.keyRead
                    /\ ~After(r).trace.fetched
                    /\ After(r).trace.response = NotCalled
              /\ After(r).pc = "ended" => ~After(r).trace.result.ok]_vars

\* a month of 13 was refused, with a key configured and a drink and a vote
\* already in the store
C29_Witness ==
    /\ Quiet
    /\ last.op = "generateDrink"
    /\ last.payload = Payload("astro", 13, 1, 1990, "Ada", "Lovelace")
    /\ last.properties \in KeyedProperties
    /\ ~last.result.ok
    /\ last.result.error = ErrMonth
    /\ ~last.keyRead
    /\ Len(primarySheet.rows) = 1
    /\ Len(votesSheet.rows) = 1

-----------------------------------------------------------------------------
(* SpecRoundTrip: persistBlueprint_ is called with one blueprint, on a store
   whose sheets were made by an earlier structure check or on one that holds
   no sheet yet; once it has returned or thrown, getStoredDrinks is called.
   Runner 1 serves the one and runner 2 the other, so that procs keeps what
   each of them came to. *)

MaxItems == 3

IngredientPool == {"gin", "dry vermouth - 1 oz", "", "a" \o Bullet \o "b", "7", "0", "true"}
InstructionPool == {"Stir.", "Strain into a glass. ", Bullet, "FALSE"}

Lists(pool, longest) == UNION {[1..n -> pool] : n \in 0..longest}

StockRequest ==
    [generatorKey |-> "astro", birthMonth |-> 6, birthDay |-> 1, birthYear |-> 1990,
     firstName |-> "Ada", lastName |-> "Lovelace"]

RoundTripRunners == {1, 2}

InitRoundTrip ==
    /\ \E store \in {[primary |-> NewSheet(PrimaryHeaders), votes |-> NewSheet(VotesHeaders)],
                     NewSpreadsheet} :
        primarySheet = store.primary /\ votesSheet = store.votes
    /\ uuids = {}
    /\ today = Epoch
    /\ last = NoRun
    /\ procs = [requests |-> [r \in RoundTripRunners |-> NoRequest], admitted |-> 0]
    /\ caches = <<>>
    /\ \E ingredients \in Lists(IngredientPool, MaxItems),
          instructions \in Lists(InstructionPool, MaxItems - 1) :
        arg = [fn |-> "persistBlueprint_",
               blueprint |-> [drinkName |-> "Neon Fizz", reason |-> "Bright.",
                              ingredients |-> ingredients, instructions |-> instructions,
                              compatibility |-> "Crisp."]]
    /\ out = Idle

\* persistBlueprint_(request, blueprint) is called
PersistBlueprint(r) ==
    /\ r = 1
    /\ arg.fn = "persistBlueprint_"
    /\ procs.requests[1].pc = "idle"
    /\ Invoke(r, {PersistRequest(StockRequest, arg.blueprint, NoKey)})

\* getStoredDrinks is called once persistBlueprint_ is through
ListStoredDrinks(r) ==
    /\ r = 2
    /\ arg.fn = "persistBlueprint_"
    /\ procs.requests[1].pc = "ended"
    /\ procs.requests[2].pc = "idle"
    /\ Invoke(r, {Invocation("getStoredDrinks", <<>>, NoKey)})

NextRoundTrip ==
    \E r \in RoundTripRunners :
        \/ PersistBlueprint(r)
        \/ ListStoredDrinks(r)
        \/ PersistSheet(r)
        \/ PersistUuid(r)
        \/ PersistAppend(r)
        \/ EnsureStorage(r)
        \/ EnsureInsert(r)
        \/ EnsureHeaders(r)
        \/ EnsureVotes(r)
        \/ StoredLastRow(r)
        \/ StoredGetValues(r)

SpecRoundTrip == InitRoundTrip /\ [][NextRoundTrip]_vars

\* a list of trimmed, non-empty strings that hold no bullet
PlainList(list) ==
    \A i \in DOMAIN list :
        /\ list[i] # ""
        /\ trim(list[i]) = list[i]
        /\ \A j \in 1..Len(list[i]) : SubSeq(list[i], j, j) # Bullet

Persisting == procs.requests[1]
Listing == procs.requests[2]

\* persistBlueprint_ has returned or thrown, and so has the getStoredDrinks
\* that followed
RoundTripped ==
    /\ arg.fn = "persistBlueprint_"
    /\ Persisting.pc = "ended"
    /\ Listing.pc = "ended"

\* the records getStoredDrinks returned for the row persistBlueprint_ wrote
ListedFor(drinkId) ==
    SelectSeq(Listing.trace.result.value, LAMBDA record : record.drinkId = drinkId)

\* decimal digits, or the word true or false in any case
ReadAsValue(list) ==
    /\ Len(list) = 1
    /\ \/ /\ list[1] # ""
          /\ \A j \in 1..Len(list[1]) : IsDigit(SubSeq(list[1], j, j))
       \/ toLowerCase(list[1]) \in {"true", "false"}

\* such a value that is falsy: the number 0 or the boolean false
ReadAsFalsy(list) ==
    /\ ReadAsValue(list)
    /\ \/ toLowerCase(list[1]) = "false"
       \/ \A j \in 1..Len(list[1]) : SubSeq(list[1], j, j) = "0"

\* the list that comes back for the list written, when the listing returns
ComesBack(written, listed) ==
    /\ (PlainList(written) /\ ~ReadAsValue(written)) => listed = written
    /\ ReadAsFalsy(written) => listed = <<>>
    /\ written = <<>> => listed = <<>>


====
